---------------------------- MODULE Spec2Model ----------------------------
(***************************************************************************)
(* A model of ecs-run-task's log synchronisation: logWaiter.Wait,          *)
(* logWatcher.Watch / Stop / printEventsAfter, logWriter.WriteString       *)
(* (runner/cloudwatch.go) and Runner.Run with main's exit code             *)
(* (runner/runner.go, main.go).                                            *)
(*                                                                         *)
(* Time is counted in ticks of one second.  Timers (time.Sleep, the        *)
(* ticker, time.After) count down with Tick; a step of the program that    *)
(* can run is taken before time passes.  Timestamps are milliseconds:      *)
(* second * 1000 + the millisecond within the second.                      *)
(***************************************************************************)
EXTENDS Integers, Sequences, FiniteSets, TLC

\* ------------------------------------------------------------- bounds
\* Containers of the run (one log stream and one watcher each).
NumContainers == 1
\* Tasks, and containers per task, in the answer of DescribeTasks that the
\* exit code is determined from.
MaxTasks == 2
MaxPerTask == 2
\* Largest Timeout a waiter is configured with, in ticks.
MaxTimeout == 4
\* The wall clock is followed up to this second; nothing reads it later.
MaxNow == 3
\* Milliseconds within a second that a clock reading may show: 0..MaxSubMs.
MaxSubMs == 1
\* Records the containers write to their streams, in all.
MaxEvents == 2
\* Failures (errors, rate limiting) the remote services answer with, in all.
MaxFaults == 1
\* Records the store returns per page of FilterLogEventsPages.
PageSize == 1
\* External calls of logWatcher.Stop per watcher.
MaxStopCalls == 2

\* Names and IDs of containers and tasks have up to MaxIdLen characters.
MaxIdLen == 2
\* Entries of r.Environment: up to MaxWanted, of up to MaxEntryLen characters.
MaxWanted == 2
MaxEntryLen == 3

\* ------------------------------------------------- program constants
defaultLogPollInterval == 2
\* time.Minute * 60, on the scale of the model: the largest timeout followed.
defaultLogTimeout == MaxTimeout
RateLimitBackoff == 5
MsPerSec == 1000

Containers == 1..NumContainers
\* Process 0 is the goroutine of Runner.Run (it runs logWriter.WriteString);
\* process c > 0 is the goroutine of container c's watcher.
RunProc == 0
Procs == {RunProc} \cup Containers

VARIABLES
    now,       \* wall clock, whole seconds, followed up to MaxNow
    cfg,       \* Interval and Timeout given to waiter, watcher and writer
    streams,   \* names of the log streams that exist in the log group
    events,    \* events[c]: the records of container c's stream, by timestamp
    ctxDone,   \* the context passed to Watch / WriteString is cancelled
    wt,        \* wt[p]: the logWaiter.Wait call of process p
    lw,        \* lw[c]: container c's logWatcher and its Watch call
    sunk,      \* sunk[c]: the Printer calls of watcher c: record and result
    hist,      \* hist[c]: what has happened in watcher c (for the properties)
    stopLog,   \* stopLog[c]: the external Stop calls on watcher c
    faults,    \* failures the remote services have answered with so far
    ecs,       \* the orchestrator: the tasks of the run and their containers
    run,       \* Runner.Run and main
    crashed,   \* the process died of a panic
    call,      \* a call of one of the pure functions of the runner: arguments, result
    stdout     \* the lines written to standard output

vars == <<now, cfg, streams, events, ctxDone, wt, lw, sunk, hist, stopLog, faults, ecs, run,
          crashed, call, stdout>>

\* ------------------------------------------------------------ helpers
Min(a, b) == IF a < b THEN a ELSE b

Dec(n) == IF n > 0 THEN n - 1 ELSE 0

IsPrefix(p, s) == Len(p) <= Len(s) /\ SubSeq(s, 1, Len(p)) = p

\* The order of the characters of stream names.
Alphabet == <<"/", "0", "1", "2", "3", "4", "5", "6", "7", "8", "9", "a", "r", "t">>

\* The place of every character in that order.
Ranks ==
    [ch \in {Alphabet[i] : i \in 1..Len(Alphabet)} |->
        CHOOSE i \in 1..Len(Alphabet) : Alphabet[i] = ch]

Rank(ch) == Ranks[ch]

\* s comes before t in the order of names.
RECURSIVE Less(_, _)
Less(s, t) ==
    IF t = <<>> \/ s = t THEN FALSE
    ELSE IF s = <<>> THEN TRUE
    ELSE IF Head(s) = Head(t) THEN Less(Tail(s), Tail(t))
    ELSE Rank(Head(s)) < Rank(Head(t))

\* The names of a set in descending order.
RECURSIVE Descending(_)
Descending(names) ==
    IF names = {} THEN <<>>
    ELSE IF Cardinality(names) = 1 THEN <<CHOOSE s \in names : TRUE>>
    ELSE LET last == CHOOSE s \in names : \A t \in names : ~Less(s, t)
         IN  <<last>> \o Descending(names \ {last})

\* Strings are sequences of characters.
RECURSIVE StripTrailingSlashes(_)
StripTrailingSlashes(p) ==
    IF p # <<>> /\ p[Len(p)] = "/"
    THEN StripTrailingSlashes(SubSeq(p, 1, Len(p) - 1))
    ELSE p

\* The index of the last "/" of p, 0 when there is none.
LastSlash(p) ==
    IF \E i \in 1..Len(p) : p[i] = "/"
    THEN CHOOSE i \in 1..Len(p) : p[i] = "/" /\ \A j \in (i + 1)..Len(p) : p[j] # "/"
    ELSE 0

\* path.Base: "." for the empty path, trailing slashes removed, then the
\* last element; "/" for a path of slashes only.
Base(p) ==
    IF p = <<>> THEN <<".">>
    ELSE LET q == StripTrailingSlashes(p)
         IN  IF q = <<>> THEN <<"/">>
             ELSE SubSeq(q, LastSlash(q) + 1, Len(q))

StreamNameWithoutTask(logStreamPrefix, name, taskArn) ==
    logStreamPrefix \o <<"/">> \o name

\* logStreamName of a prefix, a container name and a task ARN:
\* fmt.Sprintf("%s/%s/%s", logStreamPrefix, *container.Name, path.Base(*task.TaskArn)).
StreamNameOf(logStreamPrefix, name, taskArn) ==
    logStreamPrefix \o <<"/">> \o name \o <<"/">> \o Base(taskArn)

\* %d of a number that is not negative.
RECURSIVE Decimal(_)
Decimal(n) ==
    LET digit == <<"0", "1", "2", "3", "4", "5", "6", "7", "8", "9">>
    IN  IF n < 10 THEN <<digit[n + 1]>>
        ELSE Decimal(n \div 10) \o <<digit[(n % 10) + 1]>>

ContainerSpace == <<"C", "o", "n", "t", "a", "i", "n", "e", "r", " ">>

SpaceExitedWith == <<" ", "e", "x", "i", "t", "e", "d", " ", "w", "i", "t", "h">>

\* fmt.Sprintf("Container %s exited with %d", path.Base(*container.ContainerArn),
\* *container.ExitCode)
finishedMessage(containerArn, exitCode) ==
    ContainerSpace \o Base(containerArn) \o SpaceExitedWith \o <<" ">> \o Decimal(exitCode)

finishedPrefixShort(containerID) == ContainerSpace \o containerID

\* fmt.Sprintf("Container %s exited with", containerID)
finishedPrefix(containerID) == ContainerSpace \o containerID \o SpaceExitedWith

\* The Printer of the watcher of the container with this ARN, on a message:
\* false when strings.HasPrefix(*ev.Message, finishedPrefix).
PrinterFor(containerArn, message) ==
    ~IsPrefix(finishedPrefix(Base(containerArn)), message)

\* The run of the model: its stream prefix, the name of its containers, and the
\* ARN of the task of container c.
streamPrefix == <<"r">>

ContainerName(c) == <<"a">>

TaskIds == <<"1", "2", "3", "4", "5", "6", "7", "8", "9">>

TaskArn(c) == <<"t", "/", TaskIds[c]>>

\* The stream names of the containers, computed once.
StreamNames ==
    [c \in 1..Len(TaskIds) |-> StreamNameOf(streamPrefix, ContainerName(c), TaskArn(c))]

\* The stream name Run gives the watcher and the writer of container c.
logStreamName(c) == StreamNames[c]

\* lw.Interval / lw.Timeout with their defaults.
pollInterval == IF cfg.interval = 0 THEN defaultLogPollInterval ELSE cfg.interval

timeout == IF cfg.timeout = 0 THEN defaultLogTimeout ELSE cfg.timeout

\* time.Now() in milliseconds, when the clock shows millisecond ms of this second.
NowMs(ms) == now * MsPerSec + ms

\* time.Now().Unix() * 1000
UnixTimesThousand(t) == (t \div MsPerSec) * MsPerSec

\* The Printer Run gives a watcher: false on the container's finished message.
Printer(ev) == ev.msg # "fin"

PrinterOutputAlways(ev) == <<ev.msg>>

\* What that Printer writes to standard output: fmt.Println(*ev.Message) for a
\* record it returns true on (log.Printf writes to standard error).
PrinterOutput(ev) == IF Printer(ev) THEN <<ev.msg>> ELSE <<>>

\* runResp.Tasks: k tasks of m containers each; the containers are numbered
\* task by task.
Layout(k, m) == [t \in 1..k |-> [i \in 1..m |-> (t - 1) * m + i]]

AllLayouts == {Layout(km[1], km[2]) : km \in (1..MaxTasks) \X (1..MaxPerTask)}

RECURSIVE Flatten(_)
Flatten(tasks) == IF tasks = <<>> THEN <<>> ELSE Head(tasks) \o Flatten(Tail(tasks))

\* The containers of the run, in the order of the tasks and of their containers.
RunOrder == Flatten(ecs.layout)

ContainersOf(l) == {Flatten(l)[i] : i \in 1..Len(Flatten(l))}

RunContainers == ContainersOf(ecs.layout)

\* The task layouts of a run with at most NumContainers containers.
Layouts == {l \in AllLayouts : Len(Flatten(l)) <= NumContainers}

\* ------------------------------------------------------ logWaiter.Wait
IdleWaiter ==
    [pc |-> "off", res |-> "none", resp |-> "none", sleep |-> 0, tick |-> 0,
     tickC |-> FALSE, timer |-> 0, gor |-> "none", elapsed |-> 0]

\* Wait up to its loop: the ticker and the timeout goroutine are started.
NewWaiter ==
    [pc |-> "loop", res |-> "none", resp |-> "none", sleep |-> 0, tick |-> pollInterval,
     tickC |-> FALSE, timer |-> timeout, gor |-> "sleeping", elapsed |-> 0]

\* Saturation of the elapsed-time counter (it is only compared with
\* timeout + pollInterval).
ElapsedCap == MaxTimeout + defaultLogPollInterval + RateLimitBackoff

\* DescribeLogStreamsPages with LogStreamNamePrefix and Descending: the streams
\* whose names start with the prefix, last name first.
DescribeLogStreamsPages(prefix) == Descending({s \in streams : IsPrefix(prefix, s)})

\* The callback of streamExists, page by page: a stream of the name on a page
\* sets exists and ends the listing, otherwise the listing goes on to the last
\* page.
RECURSIVE OnStreamPages(_, _)
OnStreamPages(listed, name) ==
    IF listed = <<>> THEN FALSE
    ELSE LET n == Min(PageSize, Len(listed))
         IN  IF \E i \in 1..n : listed[i] = name THEN TRUE
             ELSE OnStreamPages(SubSeq(listed, n + 1, Len(listed)), name)

streamExistsByPrefix(name) == DescribeLogStreamsPages(name) # <<>>

\* logWaiter.streamExists: the streams listed for the prefix, page by page,
\* matched by equality.
streamExists(name) == OnStreamPages(DescribeLogStreamsPages(name), name)

\* The stream process p waits for: the watcher's own, or the one Run writes to.
WaiterName(p) == logStreamName(IF p = RunProc THEN RunOrder[run.cur] ELSE p)

isRateLimitedNever(resp) == FALSE

isRateLimitedOrFailed(resp) == resp # "ok"

\* isRateLimited(err)
isRateLimited(resp) == resp = "Throttling"

\* The waiter after Wait returned res (defer ticker.Stop()).  The timeout
\* goroutine ends only if its send on done was received; otherwise nothing
\* receives from done any more: it sleeps on and then blocks in the send for
\* ever ("orphaned").
Returned(w, res) ==
    [w EXCEPT !.pc = "done", !.res = res, !.sleep = 0, !.tick = 0, !.tickC = FALSE,
              !.timer = 0, !.gor = IF @ = "exited" THEN @ ELSE "orphaned"]

\* One pass of Wait's loop up to the select or the return, given the answer
\* resp of the list call (kept in w.resp).
WaitListStep(w, name, resp) ==
    LET v == [w EXCEPT !.resp = resp]
    IN  IF isRateLimited(resp)
        THEN [v EXCEPT !.pc = "backoff", !.sleep = RateLimitBackoff]
        ELSE IF resp # "ok"
        THEN Returned(v, "err")
        ELSE IF streamExists(name)
        THEN Returned(v, "nil")
        ELSE [v EXCEPT !.pc = "select"]

\* A step of the program can run in waiter w.
WaiterUrgent(w) ==
    \/ w.pc = "backoff" /\ w.sleep = 0
    \/ w.pc = "select" /\ (w.tickC \/ w.gor = "sending")

\* One tick on the timers of a waiter.
WaiterTick(w) ==
    IF w.pc = "off" THEN w
    ELSE LET running == w.pc # "done"
             fires == running /\ w.tick = 1
         IN  [w EXCEPT
                !.sleep = Dec(@),
                !.tick = IF ~running THEN 0 ELSE IF fires THEN pollInterval ELSE Dec(@),
                !.tickC = IF fires THEN TRUE ELSE @,
                !.timer = Dec(@),
                !.gor = IF @ = "sleeping" /\ w.timer = 1 THEN "sending" ELSE @,
                !.elapsed = IF running THEN Min(@ + 1, ElapsedCap) ELSE @]

\* ------------------------------------------------------ logWatcher
IdleWatcher ==
    [pc |-> "none", stop |-> "nil", after |-> 0, timer |-> 0, res |-> "none", err |-> "none"]

\* What has happened in a watcher: its Printer has returned false; a fetch was
\* issued after that; where Watch was when the context was cancelled; Watch was
\* polling when Run put the finished message into the stream; the time in
\* milliseconds at which Watch was called; a fetch was issued.
NoHist ==
    [sinkFalse |-> FALSE, fetchAfterFalse |-> FALSE, cancelledAt |-> "none",
     tailingAtMarker |-> FALSE, startedBeforeStream |-> FALSE, startedAt |-> 0,
     fetched |-> FALSE]

\* close(lw.stop) in Stop: closing a closed channel panics.
StopChan(ch) ==
    IF ch = "nil" THEN [ch |-> ch, ret |-> "err"]
    ELSE IF ch = "open" THEN [ch |-> "closed", ret |-> "nil"]
    ELSE [ch |-> ch, ret |-> "panic"]

OnEventKeepTs(st, ev) ==
    IF st.panic THEN st
    ELSE LET keep == Printer(ev)
             stopped == IF keep THEN [ch |-> st.stop, ret |-> "nil"] ELSE StopChan(st.stop)
         IN  [stop |-> stopped.ch,
              ts |-> st.ts,
              calls |-> Append(st.calls, [ev |-> ev, ret |-> keep]),
              out |-> st.out \o PrinterOutput(ev),
              panic |-> stopped.ret = "panic"]

\* The callback of printEventsAfter on one event.  st: the stop channel, the
\* timestamp ts, the Printer calls made, whether a panic ended it.
OnEvent(st, ev) ==
    IF st.panic THEN st
    ELSE LET keep == Printer(ev)
             stopped == IF keep THEN [ch |-> st.stop, ret |-> "nil"] ELSE StopChan(st.stop)
         IN  [stop |-> stopped.ch,
              ts |-> IF stopped.ret # "panic" /\ ev.ts > st.ts THEN ev.ts ELSE st.ts,
              calls |-> Append(st.calls, [ev |-> ev, ret |-> keep]),
              out |-> st.out \o PrinterOutput(ev),
              panic |-> stopped.ret = "panic"]

RECURSIVE OnPage(_, _)
OnPage(st, page) ==
    IF page = <<>> THEN st
    ELSE OnPage(OnEvent(st, Head(page)), Tail(page))

\* FilterLogEventsPages: the callback is called page by page and answers
\* !lastPage, so every page of the fetch is drained.
RECURSIVE OnPages(_, _)
OnPages(st, evs) ==
    IF evs = <<>> THEN st
    ELSE LET n == Min(PageSize, Len(evs))
         IN  OnPages(OnPage(st, SubSeq(evs, 1, n)), SubSeq(evs, n + 1, Len(evs)))

\* The records the store returns for StartTime.
FilterLogEvents(c, startTime) == SelectSeq(events[c], LAMBDA e : e.ts >= startTime)

printEventsFrom(c, ts) ==
    OnPages([stop |-> lw[c].stop, ts |-> ts, calls |-> <<>>, out |-> <<>>, panic |-> FALSE],
            FilterLogEvents(c, ts))

\* printEventsAfter(ctx, ts) on a fetch that succeeds.
printEventsAfter(c, ts) ==
    OnPages([stop |-> lw[c].stop, ts |-> ts, calls |-> <<>>, out |-> <<>>, panic |-> FALSE],
            FilterLogEvents(c, ts + 1))

WatcherUrgent(c) ==
    /\ lw[c].pc = "select"
    /\ (lw[c].timer = 0 \/ lw[c].stop = "closed" \/ ctxDone)

InsertEventTwice(evs, ev) ==
    LET k == Cardinality({i \in 1..Len(evs) : evs[i].ts <= ev.ts})
    IN  SubSeq(evs, 1, k) \o <<ev, ev>> \o SubSeq(evs, k + 1, Len(evs))

\* records are kept by timestamp; a new one goes after those of its timestamp
InsertEvent(evs, ev) ==
    LET k == Cardinality({i \in 1..Len(evs) : evs[i].ts <= ev.ts})
    IN  SubSeq(evs, 1, k) \o <<ev>> \o SubSeq(evs, k + 1, Len(evs))

\* ------------------------------------------------------ Runner.Run
\* *container.ExitCode of a container that has none (nil).
NoCode == -1

\* Exit codes the orchestrator reports.
ExitCodes == {NoCode, 0, 1, 2}

\* No call of a pure function is modelled.
NoCall == [fn |-> "none"]

SplitAtLast(s) ==
    IF \E i \in 1..Len(s) : s[i] = "="
    THEN LET i == CHOOSE k \in 1..Len(s) : s[k] = "=" /\ \A j \in (k + 1)..Len(s) : s[j] # "="
         IN  <<SubSeq(s, 1, i - 1), SubSeq(s, i + 1, Len(s))>>
    ELSE <<s>>

\* strings.SplitN(s, "=", 2): s itself when it holds no "=", else what is
\* before the first "=" and all that is after it.
SplitN(s) ==
    IF \E i \in 1..Len(s) : s[i] = "="
    THEN LET i == CHOOSE k \in 1..Len(s) : s[k] = "=" /\ \A j \in 1..(k - 1) : s[j] # "="
         IN  <<SubSeq(s, 1, i - 1), SubSeq(s, i + 1, Len(s))>>
    ELSE <<s>>

\* lookupEnv(key) in the environment env, a function from the names that are
\* set to their values.
lookupEnv(env, key) ==
    IF key \in DOMAIN env THEN [value |-> env[key], ok |-> TRUE]
    ELSE [value |-> <<>>, ok |-> FALSE]

\* fmt.Errorf("missing environment variable %q", key), for a key of characters
\* that %q leaves as they are.
MissingError(key) == <<"missing environment variable ">> \o <<"\"">> \o key \o <<"\"">>

\* awsKeyValuePairForEnv from the entry it has come to: kvp are the pairs
\* appended so far, lookups the keys lookupEnv was called with.
RECURSIVE ForEnv(_, _, _, _)
ForEnv(env, wanted, kvp, lookups) ==
    IF wanted = <<>> THEN [kvp |-> kvp, err |-> <<>>, lookups |-> lookups]
    ELSE LET parts == SplitN(Head(wanted))
             key == parts[1]
         IN  IF Len(parts) = 2
             THEN ForEnv(env, Tail(wanted),
                         Append(kvp, [name |-> key, value |-> parts[2]]), lookups)
             ELSE IF ~lookupEnv(env, key).ok
             THEN [kvp |-> <<>>, err |-> MissingError(key), lookups |-> Append(lookups, key)]
             ELSE ForEnv(env, Tail(wanted),
                         Append(kvp, [name |-> key, value |-> lookupEnv(env, key).value]),
                         Append(lookups, key))

awsKeyValuePairForEnv(env, wanted) == ForEnv(env, wanted, <<>>, <<>>)

\* A container of a described task without a Reason (the field is nil).
NoReason == "nil"

\* What DescribeTasks may tell of a container: lastStatus and reason.
Statuses == {"STOPPED", "RUNNING"}

Reasons == {NoReason, "some aws container reason"}

\* The StoppedReason of a described task.
StoppedReason == "some aws task reason"

\* The error values of Run that the model tells apart by their message.
NoError == <<>>

NotStoppedErrorBare(status) == <<"expected container to be STOPPED, got ">>

\* fmt.Errorf("expected container to be STOPPED, got %s", *container.LastStatus)
NotStoppedError(status) == <<"expected container to be STOPPED, got ", status>>

\* errors.New(*container.Reason)
ReasonError(reason) == <<reason>>

\* A nil *string sequence token.
NoToken == <<>>

\* puts: the PutLogEvents calls made so far; sent: the SequenceToken of the
\* last; spawned: the containers for which a watcher's goroutine was started,
\* one entry for each go statement; werr: the answer of the last
\* WaitUntilTasksStopped.
IdleRun ==
    [pc |-> "off", cur |-> 1, res |-> [kind |-> "none", code |-> 0], exit |-> -1,
     err |-> NoError, puts |-> 0, sent |-> NoToken, spawned |-> <<>>, werr |-> "none"]

\* The process runs: no panic, no os.Exit yet.
Alive == ~crashed /\ run.pc # "exited"

\* Run returns res.
RunReturns(kind, code) ==
    [run EXCEPT !.pc = "returned", !.res = [kind |-> kind, code |-> code]]

\* Run returns the error whose message is msg.
RunFails(msg) == [RunReturns("err", 0) EXCEPT !.err = msg]

\* The error of Wait: "Timed out waiting for stream %s".
TimedOutError(name) == <<"Timed out waiting for stream ">> \o name

\* An awserr.Error of a remote call, told by its code.
AwsError(code) == <<code>>

RECURSIVE LastNonZeroOfTask(_, _)
LastNonZeroOfTask(containers, codes) ==
    IF containers = <<>> THEN 0
    ELSE IF LastNonZeroOfTask(Tail(containers), codes) # 0
    THEN LastNonZeroOfTask(Tail(containers), codes)
    ELSE codes[Head(containers)]

\* The loop over the containers of one task: the first exit code that is not 0.
RECURSIVE FirstNonZeroOfTask(_, _)
FirstNonZeroOfTask(containers, codes) ==
    IF containers = <<>> THEN 0
    ELSE IF codes[Head(containers)] # 0 THEN codes[Head(containers)]
    ELSE FirstNonZeroOfTask(Tail(containers), codes)

\* "Determine exit code based on the first non-zero exit code": the loop over
\* output.Tasks.
RECURSIVE FirstNonZero(_, _)
FirstNonZero(tasks, codes) ==
    IF tasks = <<>> THEN 0
    ELSE IF FirstNonZeroOfTask(Head(tasks), codes) # 0
    THEN FirstNonZeroOfTask(Head(tasks), codes)
    ELSE FirstNonZero(Tail(tasks), codes)

\* What Run returns after wg.Wait().
RunResult(tasks, codes) ==
    IF FirstNonZero(tasks, codes) # 0
    THEN [kind |-> "exit", code |-> FirstNonZero(tasks, codes)]
    ELSE [kind |-> "nil", code |-> 0]

\* main: the exit code for what Run returned.  An exitError is a cli.ExitCoder
\* and leaves with its own code; any other error leaves with 1.
MainExitCode(res) ==
    IF res.kind = "nil" THEN 0
    ELSE IF res.kind = "exit" THEN res.code
    ELSE 1

\* ------------------------------------------------------------ actions
\* A remote service may answer resp: a failure only while the bound allows.
MayAnswer(resp) == resp \in {"ok", "nil"} \/ faults < MaxFaults

Answered(resp) == IF resp \in {"ok", "nil"} THEN faults ELSE Min(faults + 1, MaxFaults)

\* What the caller of Wait does when Wait returns (w: the waiter afterwards).
\* Watch: an error is returned as it is; otherwise the polling loop starts.
WatchAfterWait(l, w) ==
    IF w.pc # "done" THEN l
    ELSE IF w.res # "nil"
    THEN [l EXCEPT !.pc = "done", !.res = w.res, !.err = IF w.res = "err" THEN w.resp ELSE w.res]
    ELSE [l EXCEPT !.pc = "select", !.timer = pollInterval]

\* WriteString: an error is returned as it is (and Run returns it); otherwise
\* the sequence token is looked up.
WriteAfterWait(w) ==
    IF w.pc # "done" THEN [run EXCEPT !.pc = "writeWait"]
    ELSE IF w.res = "timedout" THEN RunFails(TimedOutError(WaiterName(RunProc)))
    ELSE IF w.res # "nil" THEN RunFails(AwsError(w.resp))
    ELSE [run EXCEPT !.pc = "put"]

\* Process p is inside Wait.
InWait(p) == IF p = RunProc THEN run.pc = "writeWait" ELSE lw[p].pc = "wait"

AfterWait(p, w) ==
    IF p = RunProc
    THEN run' = WriteAfterWait(w) /\ UNCHANGED lw
    ELSE lw' = [lw EXCEPT ![p] = WatchAfterWait(lw[p], w)] /\ UNCHANGED run

\* logWatcher.Watch up to the first select of Wait: the stop channel, the
\* timestamp, and Wait with its first lw.streamExists().  With bounded, the
\* failures of the list call count against MaxFaults.  instants: the
\* milliseconds of the second at which Watch may be called.
WatchAt(c, bounded, instants) ==
    /\ Alive
    /\ lw[c].pc = "called"
    /\ now < MaxNow
    /\ \E ms \in instants, resp \in {"ok", "Throttling", "error"} :
         LET w == WaitListStep(NewWaiter, logStreamName(c), resp)
             l == [lw[c] EXCEPT !.pc = "wait", !.stop = "open",
                                !.after = UnixTimesThousand(NowMs(ms))]
         IN  /\ bounded => MayAnswer(resp)
             /\ faults' = IF bounded THEN Answered(resp) ELSE faults
             /\ wt' = [wt EXCEPT ![c] = w]
             /\ lw' = [lw EXCEPT ![c] = WatchAfterWait(l, w)]
             /\ hist' = [hist EXCEPT ![c] =
                           [@ EXCEPT !.startedBeforeStream = ~streamExists(logStreamName(c)),
                                     !.startedAt = NowMs(ms)]]
    /\ UNCHANGED <<now, cfg, streams, events, ctxDone, sunk, stopLog, ecs, run, crashed, call,
                   stdout>>

\* Watch called as a second begins (where in the second changes nothing but
\* what is remembered of it).
WatchStart(c, bounded) == WatchAt(c, bounded, {0})

\* The instants of a second at which Watch may be called: those at which the
\* records are stamped, and one after them.
StartInstants == 0..(MaxSubMs + 1)

\* Wait: the sleep after a rate-limited answer is over, or select takes
\* case <-ticker.C: the next pass of the loop, with lw.streamExists().
WaitList(p, bounded) ==
    /\ Alive
    /\ InWait(p)
    /\ (wt[p].pc = "backoff" /\ wt[p].sleep = 0) \/ (wt[p].pc = "select" /\ wt[p].tickC)
    /\ \E resp \in {"ok", "Throttling", "error"} :
         LET w == WaitListStep([wt[p] EXCEPT !.tickC = (@ /\ wt[p].pc # "select")],
                               WaiterName(p), resp)
         IN  /\ bounded => MayAnswer(resp)
             /\ faults' = IF bounded THEN Answered(resp) ELSE faults
             /\ wt' = [wt EXCEPT ![p] = w]
             /\ AfterWait(p, w)
    /\ UNCHANGED <<now, cfg, streams, events, ctxDone, sunk, hist, stopLog, ecs, crashed, call,
                   stdout>>

WaitTimedOutStopsSiblings(p) ==
    /\ Alive
    /\ InWait(p)
    /\ wt[p].pc = "select"
    /\ wt[p].gor = "sending"
    /\ LET w == Returned([wt[p] EXCEPT !.gor = "exited"], "timedout")
       IN  /\ wt' = [wt EXCEPT ![p] = w]
           /\ IF p = RunProc
              THEN run' = WriteAfterWait(w) /\ UNCHANGED lw
              ELSE /\ lw' = [c \in DOMAIN lw |->
                               IF c = p THEN WatchAfterWait(lw[p], w)
                               ELSE [lw[c] EXCEPT !.stop = IF @ = "open" THEN "closed" ELSE @]]
                   /\ UNCHANGED run
    /\ UNCHANGED <<now, cfg, streams, events, ctxDone, sunk, hist, stopLog, faults, ecs, crashed,
                   call, stdout>>

\* Wait: select, case <-done.
WaitTimedOut(p) ==
    /\ Alive
    /\ InWait(p)
    /\ wt[p].pc = "select"
    /\ wt[p].gor = "sending"
    /\ LET w == Returned([wt[p] EXCEPT !.gor = "exited"], "timedout")
       IN  /\ wt' = [wt EXCEPT ![p] = w]
           /\ AfterWait(p, w)
    /\ UNCHANGED <<now, cfg, streams, events, ctxDone, sunk, hist, stopLog, faults, ecs, crashed,
                   call, stdout>>

\* Watch: select, case <-time.After(pollInterval): printEventsAfter.
WatchPoll(c) ==
    /\ Alive
    /\ lw[c].pc = "select"
    /\ lw[c].timer = 0
    /\ \E resp \in {"ok", "Throttling", "error"} :
         /\ MayAnswer(resp)
         /\ faults' = Answered(resp)
         /\ IF resp = "ok"
            THEN LET st == printEventsAfter(c, lw[c].after)
                 IN  /\ lw' = [lw EXCEPT ![c] =
                                 IF st.panic
                                 THEN [@ EXCEPT !.pc = "done", !.res = "panic"]
                                 ELSE [@ EXCEPT !.after = st.ts, !.stop = st.stop,
                                                !.timer = pollInterval]]
                     /\ sunk' = [sunk EXCEPT ![c] = @ \o st.calls]
                     /\ stdout' = stdout \o st.out
                     /\ hist' = [hist EXCEPT ![c] =
                                   [@ EXCEPT !.fetchAfterFalse = @ \/ hist[c].sinkFalse,
                                             !.sinkFalse = @ \/ \E i \in 1..Len(st.calls) :
                                                                  ~st.calls[i].ret,
                                             !.fetched = TRUE]]
                     /\ crashed' = st.panic
            ELSE /\ lw' = [lw EXCEPT ![c] = [@ EXCEPT !.pc = "done", !.res = "err", !.err = resp]]
                 /\ hist' = [hist EXCEPT ![c] =
                               [@ EXCEPT !.fetchAfterFalse = @ \/ hist[c].sinkFalse,
                                         !.fetched = TRUE]]
                 /\ UNCHANGED <<sunk, crashed, stdout>>
    /\ UNCHANGED <<now, cfg, streams, events, ctxDone, wt, stopLog, ecs, run, call>>

\* Watch: select, case <-lw.stop.
WatchStopped(c) ==
    /\ Alive
    /\ lw[c].pc = "select"
    /\ lw[c].stop = "closed"
    /\ lw' = [lw EXCEPT ![c] = [@ EXCEPT !.pc = "done", !.res = "nil"]]
    /\ UNCHANGED <<now, cfg, streams, events, ctxDone, wt, sunk, hist, stopLog, faults, ecs, run,
                   crashed, call, stdout>>

WatchCancelledNil(c) ==
    /\ Alive
    /\ lw[c].pc = "select"
    /\ ctxDone
    /\ lw' = [lw EXCEPT ![c] = [@ EXCEPT !.pc = "done", !.res = "nil"]]
    /\ UNCHANGED <<now, cfg, streams, events, ctxDone, wt, sunk, hist, stopLog, faults, ecs, run,
                   crashed, call, stdout>>

\* Watch: select, case <-ctx.Done().
WatchCancelled(c) ==
    /\ Alive
    /\ lw[c].pc = "select"
    /\ ctxDone
    /\ lw' = [lw EXCEPT ![c] = [@ EXCEPT !.pc = "done", !.res = "ctxErr"]]
    /\ UNCHANGED <<now, cfg, streams, events, ctxDone, wt, sunk, hist, stopLog, faults, ecs, run,
                   crashed, call, stdout>>

\* A caller's lw.Stop().
ExternalStop(c) ==
    /\ Alive
    /\ Len(stopLog[c]) < MaxStopCalls
    /\ LET r == StopChan(lw[c].stop)
       IN  /\ stopLog' = [stopLog EXCEPT ![c] =
                            Append(@, [pre |-> lw[c].stop, ret |-> r.ret, post |-> r.ch])]
           /\ lw' = [lw EXCEPT ![c] = [@ EXCEPT !.stop = r.ch]]
           /\ crashed' = (r.ret = "panic")
    /\ UNCHANGED <<now, cfg, streams, events, ctxDone, wt, sunk, hist, faults, ecs, run, call,
                   stdout>>

\* The context is cancelled (or its deadline passes).
Cancel ==
    /\ Alive
    /\ ~ctxDone
    /\ ctxDone' = TRUE
    /\ hist' = [c \in DOMAIN hist |->
                  [hist[c] EXCEPT !.cancelledAt =
                     IF lw[c].pc \in {"wait", "select"} THEN lw[c].pc ELSE "none"]]
    /\ UNCHANGED <<now, cfg, streams, events, wt, lw, sunk, stopLog, faults, ecs, run, crashed,
                   call, stdout>>

\* The log driver creates container c's stream.
StreamAppears(c) ==
    /\ Alive
    /\ logStreamName(c) \notin streams
    /\ streams' = streams \cup {logStreamName(c)}
    /\ UNCHANGED <<now, cfg, events, ctxDone, wt, lw, sunk, hist, stopLog, faults, ecs, run,
                   crashed, call, stdout>>

\* The name of the stream of a task whose id starts with the id of c's task.
OtherStreamName(c) == logStreamName(c) \o <<"0">>

\* The group gets the stream of such a task (of another run).
OtherStreamAppears(c) ==
    /\ Alive
    /\ OtherStreamName(c) \notin streams
    /\ streams' = streams \cup {OtherStreamName(c)}
    /\ UNCHANGED <<now, cfg, events, ctxDone, wt, lw, sunk, hist, stopLog, faults, ecs, run,
                   crashed, call, stdout>>

\* Container c's stream is deleted from the group, with its records.
StreamDeleted(c) ==
    /\ Alive
    /\ logStreamName(c) \in streams
    /\ streams' = streams \ {logStreamName(c)}
    /\ events' = [events EXCEPT ![c] = <<>>]
    /\ UNCHANGED <<now, cfg, ctxDone, wt, lw, sunk, hist, stopLog, faults, ecs, run, crashed,
                   call, stdout>>

\* Records the containers have written.
RECURSIVE Written(_)
Written(cs) ==
    IF cs = {} THEN 0
    ELSE LET c == CHOOSE x \in cs : TRUE
         IN  Len(SelectSeq(events[c], LAMBDA e : e.by = "container")) + Written(cs \ {c})

\* The lines the containers of a run write, in the order they write them.
Lines == <<"line 1", "line 2", "line 3", "line 4">>

NextLine == Lines[Min(Written(Containers) + 1, Len(Lines))]

\* A record with one of the messages msgs arrives in container c's stream,
\* stamped by the clock of the container's host.
StreamGetsEvent(c, msgs) ==
    /\ Alive
    /\ logStreamName(c) \in streams
    /\ Written(Containers) < MaxEvents
    /\ now < MaxNow
    /\ \E ms \in 0..MaxSubMs, m \in msgs :
         events' = [events EXCEPT ![c] =
                      InsertEvent(@, [ts |-> NowMs(ms), msg |-> m, by |-> "container"])]
    /\ UNCHANGED <<now, cfg, streams, ctxDone, wt, lw, sunk, hist, stopLog, faults, ecs, run,
                   crashed, call, stdout>>

\* One container of every task (its first).
FirstOfEachTask(tasks) == [t \in 1..Len(tasks) |-> Head(tasks[t])]

\* "spawn a log watcher for each container": the containers of the go
\* statements, for the tasks in turn and the containers of each in turn.
SpawnOrder(tasks) == Flatten(tasks)

\* Run: svc.RunTask, then "spawn a log watcher for each container".
RunSpawn ==
    /\ Alive
    /\ run.pc = "start"
    /\ \E resp \in {"ok", "error"} :
         /\ MayAnswer(resp)
         /\ faults' = Answered(resp)
         /\ IF resp = "ok"
            THEN LET order == SpawnOrder(ecs.layout)
                 IN  /\ lw' = [c \in DOMAIN lw |->
                                 IF \E i \in 1..Len(order) : order[i] = c
                                 THEN [lw[c] EXCEPT !.pc = "called"]
                                 ELSE lw[c]]
                     /\ run' = [run EXCEPT !.pc = "waitStopped", !.spawned = order]
            ELSE /\ run' = RunReturns("err", 0)
                 /\ UNCHANGED lw
    /\ UNCHANGED <<now, cfg, streams, events, ctxDone, wt, sunk, hist, stopLog, ecs, crashed,
                   call, stdout>>

\* The tasks of the run stop.
TasksStop ==
    /\ Alive
    /\ ~ecs.stopped
    /\ run.pc = "waitStopped"
    /\ ecs' = [ecs EXCEPT !.stopped = TRUE]
    /\ UNCHANGED <<now, cfg, streams, events, ctxDone, wt, lw, sunk, hist, stopLog, faults, run,
                   crashed, call, stdout>>

isAwsTimeOutErrorNever(werr) == FALSE

\* isAwsTimeOutError(err)
isAwsTimeOutError(werr) == werr = "ResourceNotReady"

\* Run: one pass of the loop around svc.WaitUntilTasksStopped, which answers
\* nil once the tasks have stopped, ResourceNotReady when it gives up before,
\* or another error.
RunWaitStopped ==
    /\ Alive
    /\ run.pc = "waitStopped"
    /\ \E werr \in {"nil", "ResourceNotReady", "error"} :
         /\ werr = "nil" => ecs.stopped
         /\ werr = "ResourceNotReady" => ~ecs.stopped
         /\ werr = "error" => MayAnswer(werr)
         /\ faults' = IF werr = "error" THEN Answered(werr) ELSE faults
         /\ run' = IF werr = "nil" THEN [run EXCEPT !.pc = "describe", !.werr = werr]
                   ELSE IF isAwsTimeOutError(werr) THEN [run EXCEPT !.werr = werr]
                   ELSE [RunFails(AwsError(werr)) EXCEPT !.werr = werr]
    /\ UNCHANGED <<now, cfg, streams, events, ctxDone, wt, lw, sunk, hist, stopLog, ecs, crashed,
                   call, stdout>>

\* Run: svc.DescribeTasks fails, or tells the last status and the exit code
\* (or none) of every container of the stopped tasks.
RunDescribe ==
    /\ Alive
    /\ run.pc = "describe"
    /\ \E resp \in {"ok", "error"} :
         /\ MayAnswer(resp)
         /\ faults' = Answered(resp)
         /\ IF resp = "ok"
            THEN /\ run' = [run EXCEPT !.pc = "write", !.cur = 1]
                 /\ \E codes \in [RunContainers -> ExitCodes],
                       status \in [RunContainers -> Statuses],
                       reason \in [RunContainers -> Reasons] :
                      ecs' = [ecs EXCEPT !.codes = codes, !.status = status,
                                         !.reason = reason]
            ELSE /\ run' = RunReturns("err", 0)
                 /\ UNCHANGED ecs
    /\ UNCHANGED <<now, cfg, streams, events, ctxDone, wt, lw, sunk, hist, stopLog, crashed,
                   call, stdout>>

\* Run: writeContainerFinishedMessage for the next container, up to the first
\* select of the Wait of WriteString; after the last container, "Waiting for
\* logs to finish".
RunWrite ==
    /\ Alive
    /\ run.pc = "write"
    /\ IF run.cur > Len(RunOrder)
       THEN run' = [run EXCEPT !.pc = "join"] /\ UNCHANGED <<wt, faults>>
       ELSE IF ecs.status[RunOrder[run.cur]] # "STOPPED"
       THEN /\ run' = RunFails(NotStoppedError(ecs.status[RunOrder[run.cur]]))
            /\ UNCHANGED <<wt, faults>>
       ELSE IF ecs.codes[RunOrder[run.cur]] = NoCode
       THEN /\ run' = IF ecs.reason[RunOrder[run.cur]] = NoReason
                       THEN [run EXCEPT !.pc = "panic"]
                       ELSE RunFails(ReasonError(ecs.reason[RunOrder[run.cur]]))
            /\ UNCHANGED <<wt, faults>>
       ELSE \E resp \in {"ok", "Throttling", "error"} :
              LET w == WaitListStep(NewWaiter, WaiterName(RunProc), resp)
              IN  /\ MayAnswer(resp)
                  /\ faults' = Answered(resp)
                  /\ wt' = [wt EXCEPT ![RunProc] = w]
                  /\ run' = WriteAfterWait(w)
    \* *container.Reason of a nil Reason: a nil pointer dereference
    /\ crashed' = /\ run.cur <= Len(RunOrder)
                  /\ ecs.status[RunOrder[run.cur]] = "STOPPED"
                  /\ ecs.codes[RunOrder[run.cur]] = NoCode
                  /\ ecs.reason[RunOrder[run.cur]] = NoReason
    /\ UNCHANGED <<now, cfg, streams, events, ctxDone, lw, sunk, hist, stopLog, ecs, call, stdout>>

\* The message writeContainerFinishedMessage gives WriteString: the line
\* "Container <containerID> exited with <exitCode>" (finishedMessage spells it).
FinishedMessage == "fin"

\* PutLogEvents: the store adds the event to the stream of the name given.
PutLogEvents(name, ev) ==
    [c \in DOMAIN events |->
        IF logStreamName(c) = name THEN InsertEvent(events[c], ev) ELSE events[c]]

\* r.LogGroupName
LogGroupName == <<"g">>

\* DescribeLogStreams with LogStreamNamePrefix, Descending and Limit 1: of
\* the streams whose names start with the prefix, the last in the order of
\* names.
DescribeLogStreams(prefix) ==
    LET listed == DescribeLogStreamsPages(prefix)
    IN  IF listed = <<>> THEN <<>> ELSE <<Head(listed)>>

\* The records of the stream of a name.
RecordsOf(name) ==
    IF \E c \in Containers : logStreamName(c) = name
    THEN events[CHOOSE c \in Containers : logStreamName(c) = name]
    ELSE <<>>

\* UploadSequenceToken of a stream: it names the stream and the place in it.
UploadSequenceToken(name) == <<name, Len(RecordsOf(name))>>

\* "failed to find stream %s in group %s"
NotFoundError(name) ==
    <<"failed to find stream ">> \o name \o <<" in group ">> \o LogGroupName

nextSequenceTokenUnchecked(name, resp) ==
    IF resp # "ok" THEN [token |-> NoToken, err |-> AwsError(resp)]
    ELSE IF Len(DescribeLogStreams(name)) = 0
    THEN [token |-> NoToken, err |-> NoError]
    ELSE [token |-> UploadSequenceToken(DescribeLogStreams(name)[1]), err |-> NoError]

\* nextSequenceToken, given the answer resp of DescribeLogStreams.
nextSequenceToken(name, resp) ==
    IF resp # "ok" THEN [token |-> NoToken, err |-> AwsError(resp)]
    ELSE IF Len(DescribeLogStreams(name)) = 0
    THEN [token |-> NoToken, err |-> NotFoundError(name)]
    ELSE [token |-> UploadSequenceToken(DescribeLogStreams(name)[1]), err |-> NoError]

\* What the store answers to PutLogEvents on the stream name with a sequence
\* token, when it would otherwise answer resp.
PutAnswer(name, token, resp) ==
    IF resp # "ok" THEN resp
    ELSE IF name \notin streams THEN "ResourceNotFoundException"
    ELSE IF token # UploadSequenceToken(name) THEN "InvalidSequenceTokenException"
    ELSE "ok"

\* WriteString after Wait: nextSequenceToken, then PutLogEvents with the
\* message stamped time.Now().  tresp, presp: the answers of DescribeLogStreams
\* and of PutLogEvents.
RunPut ==
    /\ Alive
    /\ run.pc = "put"
    /\ \E tresp \in {"ok", "Throttling", "error"}, presp \in {"ok", "Throttling", "error"} :
         LET name == WaiterName(RunProc)
             sequence == nextSequenceToken(name, tresp)
             answer == PutAnswer(name, sequence.token, presp)
         IN  /\ MayAnswer(tresp)
             /\ IF tresp = "ok" THEN MayAnswer(presp) ELSE presp = "ok"
             /\ faults' = IF tresp = "ok" THEN Answered(presp) ELSE Answered(tresp)
             /\ IF sequence.err # NoError
                THEN /\ run' = RunFails(sequence.err)
                     /\ UNCHANGED <<events, hist>>
                ELSE IF answer # "ok"
                THEN /\ run' = [RunFails(AwsError(answer)) EXCEPT
                                  !.puts = @ + 1, !.sent = sequence.token]
                     /\ UNCHANGED <<events, hist>>
                ELSE /\ now < MaxNow
                     /\ \E ms \in 0..MaxSubMs :
                          events' = PutLogEvents(name, [ts |-> NowMs(ms),
                                                        msg |-> FinishedMessage,
                                                        by |-> "runner"])
                     /\ hist' = [hist EXCEPT ![RunOrder[run.cur]].tailingAtMarker =
                                               lw[RunOrder[run.cur]].pc = "select"]
                     /\ run' = [run EXCEPT !.pc = "write", !.cur = @ + 1,
                                           !.puts = @ + 1, !.sent = sequence.token]
    /\ UNCHANGED <<now, cfg, streams, ctxDone, wt, lw, sunk, stopLog, ecs, crashed, call, stdout>>

RunJoinWithoutWait ==
    /\ Alive
    /\ run.pc = "join"
    /\ run' = [run EXCEPT !.pc = "returned", !.res = RunResult(ecs.layout, ecs.codes)]
    /\ UNCHANGED <<now, cfg, streams, events, ctxDone, wt, lw, sunk, hist, stopLog, faults, ecs,
                   crashed, call, stdout>>

\* Run: wg.Wait() returns, then the exit code is determined and Run returns.
RunJoin ==
    /\ Alive
    /\ run.pc = "join"
    /\ \A c \in RunContainers : lw[c].pc = "done"
    /\ run' = [run EXCEPT !.pc = "returned", !.res = RunResult(ecs.layout, ecs.codes)]
    /\ UNCHANGED <<now, cfg, streams, events, ctxDone, wt, lw, sunk, hist, stopLog, faults, ecs,
                   crashed, call, stdout>>

\* main: Run has returned; the process exits.
MainExit ==
    /\ Alive
    /\ run.pc = "returned"
    /\ run' = [run EXCEPT !.pc = "exited", !.exit = MainExitCode(run.res)]
    /\ UNCHANGED <<now, cfg, streams, events, ctxDone, wt, lw, sunk, hist, stopLog, faults, ecs,
                   crashed, call, stdout>>

\* A step of the program can run now.
Urgent ==
    \/ \E p \in DOMAIN wt : InWait(p) /\ WaiterUrgent(wt[p])
    \/ \E c \in DOMAIN lw : WatcherUrgent(c) \/ lw[c].pc = "called"
    \/ run.pc \in {"start", "describe", "write", "put", "returned"}
    \/ run.pc = "join" /\ \A c \in RunContainers : lw[c].pc = "done"

\* A timer is running.
TimerRunning ==
    \/ \E p \in DOMAIN wt : wt[p].sleep > 0 \/ wt[p].tick > 0 \/ wt[p].timer > 0
    \/ \E c \in DOMAIN lw : lw[c].pc = "select" /\ lw[c].timer > 0

\* One second passes.
Tick ==
    /\ Alive
    /\ ~Urgent
    /\ TimerRunning \/ now < MaxNow
    /\ now' = Min(now + 1, MaxNow)
    /\ wt' = [p \in DOMAIN wt |-> WaiterTick(wt[p])]
    /\ lw' = [c \in DOMAIN lw |->
                IF lw[c].pc = "select" THEN [lw[c] EXCEPT !.timer = Dec(@)] ELSE lw[c]]
    /\ UNCHANGED <<cfg, streams, events, ctxDone, sunk, hist, stopLog, faults, ecs, run, crashed,
                   call, stdout>>

\* ------------------------------------------------------ one watcher
\* The tasks of layout l while they run: no container has an exit code.
Tasks(l) ==
    [stopped |-> FALSE, layout |-> l,
     status |-> [c \in ContainersOf(l) |-> "RUNNING"],
     codes |-> [c \in ContainersOf(l) |-> NoCode],
     reason |-> [c \in ContainersOf(l) |-> NoReason],
     stoppedReason |-> StoppedReason]

\* The tasks of layout l, stopped, as DescribeTasks tells them.
StoppedTasks(l, codes) ==
    [stopped |-> TRUE, layout |-> l,
     status |-> [c \in ContainersOf(l) |-> "STOPPED"],
     codes |-> codes,
     reason |-> [c \in ContainersOf(l) |-> NoReason],
     stoppedReason |-> StoppedReason]

NoTasks == Tasks(Layout(1, 1))

\* A watcher whose Watch is called with a context the caller may cancel, on a
\* group in which streams and records appear, and whose Stop may be called.
InitWatch ==
    /\ now = 0
    /\ cfg \in [interval : {0, 1}, timeout : {MaxTimeout - 1, MaxTimeout}]
    /\ streams = {}
    /\ events = [c \in Containers |-> <<>>]
    /\ ctxDone = FALSE
    /\ wt = [p \in Procs |-> IdleWaiter]
    /\ lw = [c \in Containers |-> [IdleWatcher EXCEPT !.pc = IF c = 1 THEN "called" ELSE "none"]]
    /\ sunk = [c \in Containers |-> <<>>]
    /\ hist = [c \in Containers |-> NoHist]
    /\ stopLog = [c \in Containers |-> <<>>]
    /\ faults = 0
    /\ ecs = NoTasks
    /\ run = IdleRun
    /\ crashed = FALSE
    /\ call = NoCall
    /\ stdout = <<>>

NextWatch ==
    \/ WatchStart(1, TRUE)
    \/ WaitList(1, TRUE)
    \/ WaitTimedOut(1)
    \/ WatchPoll(1)
    \/ WatchStopped(1)
    \/ WatchCancelled(1)
    \/ ExternalStop(1)
    \/ Cancel
    \/ StreamAppears(1)
    \/ StreamGetsEvent(1, {"log", "fin"})
    \/ Tick

SpecWatch == InitWatch /\ [][NextWatch]_vars

\* ------------------------------------------------------ one watcher, polling
\* A watcher of Run whose stream exists when Watch is called, on a store that
\* answers every call: nothing but its own Printer calls its Stop, and the
\* context may be cancelled.  The container writes its lines, and a line that
\* reads like a finished message.
InitPoll ==
    /\ now = 0
    /\ cfg \in [interval : {0, 1}, timeout : {MaxTimeout}]
    /\ streams = {logStreamName(1)}
    /\ events = [c \in Containers |-> <<>>]
    /\ ctxDone = FALSE
    /\ wt = [p \in Procs |-> IdleWaiter]
    /\ lw = [c \in Containers |-> [IdleWatcher EXCEPT !.pc = IF c = 1 THEN "called" ELSE "none"]]
    /\ sunk = [c \in Containers |-> <<>>]
    /\ hist = [c \in Containers |-> NoHist]
    /\ stopLog = [c \in Containers |-> <<>>]
    /\ faults = MaxFaults
    /\ ecs = NoTasks
    /\ run = IdleRun
    /\ crashed = FALSE
    /\ call = NoCall
    /\ stdout = <<>>

NextPoll ==
    \/ WatchAt(1, TRUE, StartInstants)
    \/ WatchPoll(1)
    \/ WatchStopped(1)
    \/ WatchCancelled(1)
    \/ Cancel
    \/ StreamGetsEvent(1, {NextLine, FinishedMessage})
    \/ Tick

SpecPoll == InitPoll /\ [][NextPoll]_vars

\* ------------------------------------------------------ the whole run
\* main calls Run with context.Background(): the context is never cancelled,
\* and nothing but printEventsAfter calls Stop.  Run sets neither Interval nor
\* Timeout.
InitRun ==
    /\ now = 0
    /\ cfg = [interval |-> 0, timeout |-> 0]
    /\ streams = {}
    /\ events = [c \in Containers |-> <<>>]
    /\ ctxDone = FALSE
    /\ wt = [p \in Procs |-> IdleWaiter]
    /\ lw = [c \in Containers |-> IdleWatcher]
    /\ sunk = [c \in Containers |-> <<>>]
    /\ hist = [c \in Containers |-> NoHist]
    /\ stopLog = [c \in Containers |-> <<>>]
    /\ faults = 0
    /\ ecs \in {Tasks(l) : l \in Layouts}
    /\ run = [IdleRun EXCEPT !.pc = "start"]
    /\ crashed = FALSE
    /\ call = NoCall
    /\ stdout = <<>>

NextRun ==
    \/ RunSpawn
    \/ TasksStop
    \/ RunWaitStopped
    \/ RunDescribe
    \/ RunWrite
    \/ RunPut
    \/ RunJoin
    \/ MainExit
    \/ \E c \in Containers : WatchStart(c, TRUE)
    \/ \E p \in Procs : WaitList(p, TRUE)
    \/ \E p \in Procs : WaitTimedOut(p)
    \/ \E c \in Containers : WatchPoll(c)
    \/ \E c \in Containers : WatchStopped(c)
    \/ \E c \in RunContainers : StreamAppears(c)
    \/ \E c \in RunContainers : StreamGetsEvent(c, {NextLine})
    \/ Tick

SpecRun == InitRun /\ [][NextRun]_vars

\* ------------------------------------------------------ the finished messages
\* Run from its wait for the tasks on, with watchers that have all returned:
\* some streams exist and hold a record of their container, the others may
\* appear while Run waits, describes the tasks and writes the messages.
InitWrite ==
    /\ now = 0
    /\ cfg = [interval |-> 0, timeout |-> 0]
    /\ streams \in SUBSET {logStreamName(c) : c \in Containers}
    /\ events = [c \in Containers |->
                   IF logStreamName(c) \in streams
                   THEN <<[ts |-> 0, msg |-> Lines[1], by |-> "container"]>>
                   ELSE <<>>]
    /\ ctxDone = FALSE
    /\ wt = [p \in Procs |-> IdleWaiter]
    /\ lw = [c \in Containers |->
               [IdleWatcher EXCEPT !.pc = "done", !.res = "err", !.err = "error"]]
    /\ sunk = [c \in Containers |-> <<>>]
    /\ hist = [c \in Containers |-> NoHist]
    /\ stopLog = [c \in Containers |-> <<>>]
    /\ faults = 0
    /\ ecs \in {Tasks(l) : l \in Layouts}
    /\ run = [IdleRun EXCEPT !.pc = "waitStopped"]
    /\ crashed = FALSE
    /\ call = NoCall
    /\ stdout = <<>>

NextWrite ==
    \/ TasksStop
    \/ RunWaitStopped
    \/ RunDescribe
    \/ RunWrite
    \/ RunPut
    \/ RunJoin
    \/ MainExit
    \/ WaitList(RunProc, TRUE)
    \/ WaitTimedOut(RunProc)
    \/ \E c \in RunContainers : StreamAppears(c)
    \/ Tick

SpecWrite == InitWrite /\ [][NextWrite]_vars

\* ------------------------------------------------------ WriteString
\* Run after DescribeTasks told of stopped containers with exit codes, with
\* watchers that have all returned, on a group in which the streams of the
\* containers and streams of other tasks appear and from which streams are
\* deleted.
InitAppend ==
    /\ now = 0
    /\ cfg = [interval |-> 0, timeout |-> 0]
    /\ streams \in SUBSET ({logStreamName(c) : c \in Containers}
                              \cup {OtherStreamName(c) : c \in Containers})
    /\ events = [c \in Containers |->
                   IF logStreamName(c) \in streams
                   THEN <<[ts |-> 0, msg |-> Lines[1], by |-> "container"]>>
                   ELSE <<>>]
    /\ ctxDone = FALSE
    /\ wt = [p \in Procs |-> IdleWaiter]
    /\ lw = [c \in Containers |->
               [IdleWatcher EXCEPT !.pc = "done", !.res = "err", !.err = "error"]]
    /\ sunk = [c \in Containers |-> <<>>]
    /\ hist = [c \in Containers |-> NoHist]
    /\ stopLog = [c \in Containers |-> <<>>]
    /\ faults = 0
    /\ ecs \in UNION {{StoppedTasks(l, codes) : codes \in [ContainersOf(l) -> {0, 1}]} :
                        l \in Layouts}
    /\ run = [IdleRun EXCEPT !.pc = "write"]
    /\ crashed = FALSE
    /\ call = NoCall
    /\ stdout = <<>>

NextAppend ==
    \/ RunWrite
    \/ RunPut
    \/ RunJoin
    \/ MainExit
    \/ WaitList(RunProc, TRUE)
    \/ WaitTimedOut(RunProc)
    \/ \E c \in RunContainers : StreamAppears(c)
    \/ \E c \in RunContainers : OtherStreamAppears(c)
    \/ \E c \in RunContainers : StreamDeleted(c)
    \/ Tick

SpecAppend == InitAppend /\ [][NextAppend]_vars

\* ------------------------------------------------------ the watchers of a run
\* Run from RunTask to the end of its wait for the tasks, for tasks of any
\* layout: the watchers are spawned and begin to wait for their streams.
InitSpawn ==
    /\ now = 0
    /\ cfg = [interval |-> 0, timeout |-> 0]
    /\ streams = {}
    /\ ecs \in {Tasks(l) : l \in AllLayouts}
    /\ events = [c \in RunContainers |-> <<>>]
    /\ ctxDone = FALSE
    /\ wt = [p \in {RunProc} \cup RunContainers |-> IdleWaiter]
    /\ lw = [c \in RunContainers |-> IdleWatcher]
    /\ sunk = [c \in RunContainers |-> <<>>]
    /\ hist = [c \in RunContainers |-> NoHist]
    /\ stopLog = [c \in RunContainers |-> <<>>]
    /\ faults = 0
    /\ run = [IdleRun EXCEPT !.pc = "start"]
    /\ crashed = FALSE
    /\ call = NoCall
    /\ stdout = <<>>

NextSpawn ==
    \/ RunSpawn
    \/ TasksStop
    \/ RunWaitStopped
    \/ MainExit
    \/ \E c \in RunContainers : WatchStart(c, TRUE)

SpecSpawn == InitSpawn /\ [][NextSpawn]_vars

\* ------------------------------------------------------ sibling watchers
\* Run at its write loop for two tasks of one container each that have
\* stopped with exit codes, with their two watchers started: each stream may
\* appear at any time or never, and a call of the store may fail.  The
\* context is main's: it is never cancelled.
InitSiblings ==
    /\ now = 0
    /\ cfg = [interval |-> 0, timeout |-> 0]
    /\ streams = {}
    /\ ecs \in {StoppedTasks(Layout(2, 1), codes) :
                   codes \in [ContainersOf(Layout(2, 1)) -> {0, 1}]}
    /\ events = [c \in RunContainers |-> <<>>]
    /\ ctxDone = FALSE
    /\ wt = [p \in {RunProc} \cup RunContainers |-> IdleWaiter]
    /\ lw = [c \in RunContainers |-> [IdleWatcher EXCEPT !.pc = "called"]]
    /\ sunk = [c \in RunContainers |-> <<>>]
    /\ hist = [c \in RunContainers |-> NoHist]
    /\ stopLog = [c \in RunContainers |-> <<>>]
    /\ faults = 0
    /\ run = [IdleRun EXCEPT !.pc = "write", !.spawned = SpawnOrder(ecs.layout)]
    /\ crashed = FALSE
    /\ call = NoCall
    /\ stdout = <<>>

NextSiblings ==
    \/ RunWrite
    \/ RunPut
    \/ RunJoin
    \/ MainExit
    \/ \E c \in RunContainers : WatchStart(c, TRUE)
    \/ \E p \in DOMAIN wt : WaitList(p, TRUE)
    \/ \E p \in DOMAIN wt : WaitTimedOut(p)
    \/ \E c \in RunContainers : WatchPoll(c)
    \/ \E c \in RunContainers : WatchStopped(c)
    \/ \E c \in RunContainers : StreamAppears(c)
    \/ Tick

SpecSiblings == InitSiblings /\ [][NextSiblings]_vars

\* ------------------------------------------------------ the exit code
\* Run at wg.Wait(): the finished messages are written and every watcher has
\* returned; DescribeTasks has answered with any of the layouts.
InitExit ==
    /\ now = 0
    /\ cfg = [interval |-> 0, timeout |-> 0]
    /\ streams = {}
    /\ events = [c \in Containers |-> <<>>]
    /\ ctxDone = FALSE
    /\ wt = [p \in Procs |-> IdleWaiter]
    /\ ecs \in UNION {{StoppedTasks(l, codes) :
                           codes \in [ContainersOf(l) -> ExitCodes \ {NoCode}]} :
                        l \in AllLayouts}
    /\ lw = [c \in RunContainers |-> [IdleWatcher EXCEPT !.pc = "done", !.res = "nil"]]
    /\ sunk = [c \in Containers |-> <<>>]
    /\ hist = [c \in Containers |-> NoHist]
    /\ stopLog = [c \in Containers |-> <<>>]
    /\ faults = 0
    /\ run = [IdleRun EXCEPT !.pc = "join"]
    /\ crashed = FALSE
    /\ call = NoCall
    /\ stdout = <<>>

NextExit ==
    \/ RunJoin
    \/ MainExit

SpecExit == InitExit /\ [][NextExit]_vars

\* ------------------------------------------------------ fair runs
\* A watcher on a group whose store may answer any list call with a failure
\* or a rate limit, without bound.  The goroutines are scheduled and time
\* passes.
NextWait ==
    \/ WatchStart(1, FALSE)
    \/ WaitList(1, FALSE)
    \/ WaitTimedOut(1)
    \/ WatchPoll(1)
    \/ StreamAppears(1)
    \/ Tick

FairSpecWait ==
    /\ InitWatch
    /\ [][NextWait]_vars
    /\ WF_vars(WatchStart(1, FALSE))
    /\ WF_vars(WaitList(1, FALSE))
    /\ WF_vars(WaitTimedOut(1))
    /\ WF_vars(WatchPoll(1))
    /\ WF_vars(Tick)

\* The polling watcher with its goroutine scheduled and time passing.
FairSpecPoll ==
    /\ InitPoll
    /\ [][NextPoll]_vars
    /\ WF_vars(WatchAt(1, TRUE, StartInstants))
    /\ WF_vars(WatchPoll(1))
    /\ WF_vars(WatchStopped(1))
    /\ WF_vars(WatchCancelled(1))
    /\ WF_vars(Tick)

\* A run in which no call of a remote service fails.
InitRunNoFaults ==
    /\ now = 0
    /\ cfg = [interval |-> 0, timeout |-> 0]
    /\ streams = {}
    /\ events = [c \in Containers |-> <<>>]
    /\ ctxDone = FALSE
    /\ wt = [p \in Procs |-> IdleWaiter]
    /\ lw = [c \in Containers |-> IdleWatcher]
    /\ sunk = [c \in Containers |-> <<>>]
    /\ hist = [c \in Containers |-> NoHist]
    /\ stopLog = [c \in Containers |-> <<>>]
    /\ faults = MaxFaults
    /\ ecs \in {Tasks(l) : l \in Layouts}
    /\ run = [IdleRun EXCEPT !.pc = "start"]
    /\ crashed = FALSE
    /\ call = NoCall
    /\ stdout = <<>>

FairSpecRun ==
    /\ InitRunNoFaults
    /\ [][NextRun]_vars
    /\ WF_vars(RunSpawn)
    /\ WF_vars(RunWaitStopped)
    /\ WF_vars(RunDescribe)
    /\ WF_vars(RunWrite)
    /\ WF_vars(RunPut)
    /\ WF_vars(RunJoin)
    /\ WF_vars(MainExit)
    /\ \A c \in Containers : WF_vars(WatchStart(c, TRUE))
    /\ \A p \in Procs : WF_vars(WaitList(p, TRUE))
    /\ \A p \in Procs : WF_vars(WaitTimedOut(p))
    /\ \A c \in Containers : WF_vars(WatchPoll(c))
    /\ \A c \in Containers : WF_vars(WatchStopped(c))
    /\ WF_vars(Tick)

\* Run at its write loop with the goroutines scheduled and time passing: the
\* task of one container has stopped and was described, the container's
\* stream exists, its watcher has been started, and no call of a remote
\* service fails.
InitJoin ==
    /\ now = 0
    /\ cfg = [interval |-> 0, timeout |-> 0]
    /\ streams = {logStreamName(c) : c \in Containers}
    /\ events = [c \in Containers |-> <<>>]
    /\ ctxDone = FALSE
    /\ wt = [p \in Procs |-> IdleWaiter]
    /\ lw = [c \in Containers |-> [IdleWatcher EXCEPT !.pc = "called"]]
    /\ sunk = [c \in Containers |-> <<>>]
    /\ hist = [c \in Containers |-> NoHist]
    /\ stopLog = [c \in Containers |-> <<>>]
    /\ faults = MaxFaults
    /\ ecs \in UNION {{StoppedTasks(l, codes) : codes \in [ContainersOf(l) -> {0, 1}]} :
                        l \in Layouts}
    /\ run = [IdleRun EXCEPT !.pc = "write", !.spawned = SpawnOrder(ecs.layout)]
    /\ crashed = FALSE
    /\ call = NoCall
    /\ stdout = <<>>

NextJoin ==
    \/ RunWrite
    \/ RunPut
    \/ RunJoin
    \/ MainExit
    \/ \E c \in Containers : WatchStart(c, TRUE)
    \/ \E c \in Containers : WatchPoll(c)
    \/ \E c \in Containers : WatchStopped(c)
    \/ \E c \in RunContainers : StreamGetsEvent(c, {NextLine})
    \/ Tick

FairSpecJoin ==
    /\ InitJoin
    /\ [][NextJoin]_vars
    /\ WF_vars(RunWrite)
    /\ WF_vars(RunPut)
    /\ WF_vars(RunJoin)
    /\ WF_vars(MainExit)
    /\ \A c \in Containers : WF_vars(WatchStart(c, TRUE))
    /\ \A c \in Containers : WF_vars(WatchPoll(c))
    /\ \A c \in Containers : WF_vars(WatchStopped(c))
    /\ WF_vars(Tick)

\* ------------------------------------------------------ pure functions
\* The strings over the characters of A of lengths lo to hi.
Strings(A, lo, hi) == UNION {[1..k -> A] : k \in lo..hi}

\* Run with one stream prefix calls logStreamName for two containers (or for
\* one container twice: for its watcher and for its writer).
Prefixes == {<<"r">>, <<"r", "/", "a">>}

ContainerNames == Strings({"a", "/"}, 1, MaxIdLen)

TaskArns == Strings({"1", "/"}, 1, MaxIdLen + 1)

NamedContainers == [name : ContainerNames, arn : TaskArns]

LogStreamNameCalls ==
    [fn : {"logStreamName"}, done : {FALSE}, prefix : Prefixes,
     a : NamedContainers, b : NamedContainers, ret : {<<>>}]

\* Nothing else of the program runs while a pure function is called.
Quiet ==
    /\ now = 0
    /\ cfg = [interval |-> 0, timeout |-> 0]
    /\ streams = {}
    /\ events = [c \in Containers |-> <<>>]
    /\ ctxDone = FALSE
    /\ wt = [p \in Procs |-> IdleWaiter]
    /\ ecs = NoTasks
    /\ lw = [c \in Containers |-> IdleWatcher]
    /\ sunk = [c \in Containers |-> <<>>]
    /\ hist = [c \in Containers |-> NoHist]
    /\ stopLog = [c \in Containers |-> <<>>]
    /\ faults = 0
    /\ run = IdleRun
    /\ crashed = FALSE
    /\ stdout = <<>>

CallLogStreamName ==
    /\ call.fn = "logStreamName" /\ ~call.done
    /\ call' = [call EXCEPT
                  !.done = TRUE,
                  !.ret = <<StreamNameOf(call.prefix, call.a.name, call.a.arn),
                            StreamNameOf(call.prefix, call.b.name, call.b.arn)>>]
    /\ UNCHANGED <<now, cfg, streams, events, ctxDone, wt, lw, sunk, hist, stopLog, faults, ecs,
                   run, crashed, stdout>>

InitNames == Quiet /\ call \in LogStreamNameCalls

NextNames == CallLogStreamName

SpecNames == InitNames /\ [][NextNames]_vars

\* Run writes the finished message of one container, and the Printer of the
\* watcher of a container of the run is called with it.
ContainerArns == Strings({"a", "b", "/"}, 1, MaxIdLen + 1)

ShownExitCodes == {0, 2, 10, 137}

FinishedCalls ==
    [fn : {"finished"}, done : {FALSE}, writer : ContainerArns, exitCode : ShownExitCodes,
     reader : ContainerArns, ret : {[message |-> <<>>, keep |-> TRUE]}]

CallFinished ==
    /\ call.fn = "finished" /\ ~call.done
    /\ LET message == finishedMessage(call.writer, call.exitCode)
       IN  call' = [call EXCEPT
                      !.done = TRUE,
                      !.ret = [message |-> message,
                               keep |-> PrinterFor(call.reader, message)]]
    /\ UNCHANGED <<now, cfg, streams, events, ctxDone, wt, lw, sunk, hist, stopLog, faults, ecs,
                   run, crashed, stdout>>

InitFinished == Quiet /\ call \in FinishedCalls

NextFinished == CallFinished

SpecFinished == InitFinished /\ [][NextFinished]_vars

\* Run calls awsKeyValuePairForEnv with the environment of the process and
\* r.Environment.
Entries == Strings({"K", "="}, 0, MaxEntryLen)

EnvNames == {<<"K">>, <<"K", "K">>}

EnvValues == {<<>>, <<"K">>}

Envs == UNION {[names -> EnvValues] : names \in SUBSET EnvNames}

EnvCalls ==
    [fn : {"env"}, done : {FALSE}, env : Envs,
     wanted : UNION {[1..n -> Entries] : n \in 0..MaxWanted},
     ret : {[kvp |-> <<>>, err |-> <<>>, lookups |-> <<>>]}]

CallEnv ==
    /\ call.fn = "env" /\ ~call.done
    /\ call' = [call EXCEPT !.done = TRUE,
                            !.ret = awsKeyValuePairForEnv(call.env, call.wanted)]
    /\ UNCHANGED <<now, cfg, streams, events, ctxDone, wt, lw, sunk, hist, stopLog, faults, ecs,
                   run, crashed, stdout>>

InitEnv == Quiet /\ call \in EnvCalls

NextEnv == CallEnv

SpecEnv == InitEnv /\ [][NextEnv]_vars

\* ------------------------------------------------------ properties
\* C1: once Run has appended a container's finished message while the
\* container's watcher is still polling, the watcher eventually gets the
\* message in a fetch and Watch returns nil, whatever the timestamps of the
\* records delivered before and of the message.
C1_MarkerEndsWatch ==
    \A c \in Containers :
        hist[c].tailingAtMarker ~> (lw[c].pc = "done" /\ lw[c].res = "nil")

\* C2: a watcher that was waiting for its stream or polling when the context
\* was cancelled returns the context's error, and nothing else.
C2_CancelledWatchReturnsCtxErr ==
    \A c \in Containers :
        (hist[c].cancelledAt \in {"wait", "select"} /\ lw[c].pc = "done")
            => lw[c].res = "ctxErr"

\* The first container, in the order of the tasks and then of the containers
\* of a task, whose exit code is not 0, as the pair <<task, container index>>.
IsFirstNonZero(t, i) ==
    /\ ecs.codes[ecs.layout[t][i]] # 0
    /\ \A u \in 1..Len(ecs.layout) : \A j \in 1..Len(ecs.layout[u]) :
         (u < t \/ (u = t /\ j < i)) => ecs.codes[ecs.layout[u][j]] = 0

AllExitedZero == \A c \in RunContainers : ecs.codes[c] = 0

\* C3: when Run has come to determine the exit code, it returns an exit error
\* with the exit code of the first container, by task and then by container,
\* that exited non-zero, and the process exits with that code; when every
\* container exited with 0 Run returns nil.
C3_FirstNonZeroExitCode ==
    (run.pc \in {"returned", "exited"} /\ run.res.kind # "err") =>
        /\ AllExitedZero => run.res.kind = "nil"
        /\ \A t \in 1..Len(ecs.layout) : \A i \in 1..Len(ecs.layout[t]) :
             IsFirstNonZero(t, i) =>
                /\ run.res = [kind |-> "exit", code |-> ecs.codes[ecs.layout[t][i]]]
                /\ run.pc = "exited" => run.exit = ecs.codes[ecs.layout[t][i]]

\* Two tasks of two containers: the first container exited with 0, the second
\* with 2, one of the second task with 1, and the process has exited.
C3_Witness ==
    /\ run.pc = "exited"
    /\ Len(ecs.layout) = 2 /\ Len(ecs.layout[1]) = 2
    /\ ecs.codes[ecs.layout[1][1]] = 0
    /\ ecs.codes[ecs.layout[1][2]] = 2
    /\ ecs.codes[ecs.layout[2][1]] = 1
    /\ run.exit = 2

\* A container of the run exited with a code that is not 0.
SomeExitedNonZero == \E c \in RunContainers : ecs.codes[c] \notin {0, NoCode}

\* An infrastructural error occurred: Run returned one, or a watcher ended
\* with the stream-wait timeout or with a failure of the store.
InfrastructuralError ==
    \/ run.res.kind = "err"
    \/ \E c \in RunContainers : lw[c].res \in {"timedout", "err"}

\* C4: the process exits with the task's exit code when a container exited
\* non-zero; otherwise with a non-zero code when an infrastructural error
\* occurred in any component, a watcher's timeout or store failure included;
\* otherwise with 0.
C4_ExitCodeMirrorsErrors ==
    run.pc = "exited" =>
        IF SomeExitedNonZero
        THEN \E t \in 1..Len(ecs.layout) : \E i \in 1..Len(ecs.layout[t]) :
                IsFirstNonZero(t, i) /\ run.exit = ecs.codes[ecs.layout[t][i]]
        ELSE IF InfrastructuralError THEN run.exit # 0
        ELSE run.exit = 0

\* C5: Stop returns nil exactly when it finds the watcher started and not yet
\* stopped; any other call returns an error, does not panic and leaves the
\* watcher as it was.
C5_StopOnce ==
    \A c \in Containers : \A i \in 1..Len(stopLog[c]) :
        LET sc == stopLog[c][i]
        IN  /\ sc.ret = "nil" <=> sc.pre = "open"
            /\ sc.pre # "open" => sc.ret = "err" /\ sc.post = sc.pre

\* C6: in one Watch, once the Printer has returned false it is not called for
\* another record, of the same page, of a later page or of a later poll.
C6_NoPrinterCallAfterFalse ==
    \A c \in Containers : \A i \in 1..Len(sunk[c]) :
        ~sunk[c][i].ret => i = Len(sunk[c])

\* C7: when the Printer returns false on the first record it is given and the
\* context is not cancelled, Watch returns nil (it does not end otherwise)
\* and no fetch is issued after the one that delivered the record.
C7_FalseOnFirstRecordEndsWatch ==
    \A c \in Containers :
        (Len(sunk[c]) > 0 /\ ~sunk[c][1].ret /\ ~ctxDone) =>
            /\ ~hist[c].fetchAfterFalse
            /\ lw[c].pc = "done" => lw[c].res = "nil"

\* C8: while the stream has not appeared, Wait does not stay longer than
\* timeout + pollInterval, and when it returns "Timed out waiting for stream"
\* that is no earlier than timeout and no later than timeout + pollInterval
\* after it was called.
C8_TimeoutWindow ==
    \A p \in Procs :
        (wt[p].pc # "off" /\ ~streamExists(WaiterName(p))) =>
            /\ wt[p].elapsed <= timeout + pollInterval
            /\ wt[p].res = "timedout" => wt[p].elapsed >= timeout

\* C9: the deadline of Wait is not defeated by the retries after rate limits:
\* a Wait whose stream never appears eventually returns, whatever rate limits
\* the store answers with.
C9_DeadlineDespiteRateLimits ==
    (wt[1].pc \in {"backoff", "select"}) ~> (wt[1].pc = "done" \/ streamExists(logStreamName(1)))

\* evs is old with the one record rec added.
GainsOne(old, evs, rec) ==
    \E k \in 1..Len(evs) :
        /\ evs[k] = rec
        /\ SubSeq(evs, 1, k - 1) \o SubSeq(evs, k + 1, Len(evs)) = old

\* C11: a WriteString that succeeds on an existing stream puts exactly one
\* event, with the message it was given, into the stream of the writer's name:
\* that stream gains exactly one record and no other stream changes.
C11_WriteStringAppendsOne ==
    [][(run.pc = "put" /\ run'.pc = "write") =>
          \E c \in Containers :
              /\ logStreamName(c) = WaiterName(RunProc)
              /\ \E ts \in 0..(MaxNow * MsPerSec + MaxSubMs) :
                    GainsOne(events[c], events'[c],
                             [ts |-> ts, msg |-> FinishedMessage, by |-> "runner"])
              /\ \A d \in Containers \ {c} : events'[d] = events[d]
      ]_vars

\* WriteString has put the finished message into a stream that held a record
\* of the container.
C11_Witness ==
    /\ run.pc = "write" /\ run.cur = 2
    /\ \E i, j \in 1..Len(events[1]) :
          events[1][i].by = "container" /\ events[1][j].by = "runner"

\* C12: a watcher that was in its polling loop when the context was cancelled,
\* whose Stop was never called (neither by a caller nor after the Printer
\* returned false) and none of whose fetches failed,
\* returns the context's error and never nil.
C12_CancelledPollingReturnsCtxErr ==
    \A c \in Containers :
        (/\ hist[c].cancelledAt = "select"
         /\ lw[c].pc = "done"
         /\ stopLog[c] = <<>> /\ ~hist[c].sinkFalse
         /\ lw[c].res # "err")
            => lw[c].res = "ctxErr"

\* A watcher cancelled in its polling loop, having delivered a record, has
\* returned the context's error.
C12_Witness ==
    /\ hist[1].cancelledAt = "select"
    /\ lw[1].pc = "done" /\ lw[1].res = "ctxErr"
    /\ stopLog[1] = <<>> /\ ~hist[1].sinkFalse
    /\ sunk[1] # <<>>

\* How often the record ev is in the stream evs, and how often the Printer
\* was called with it.
InStream(evs, ev) == Cardinality({i \in 1..Len(evs) : evs[i] = ev})

Delivered(calls, ev) == Cardinality({i \in 1..Len(calls) : calls[i].ev = ev})

\* No record is passed to the Printer more often than it is in the stream.
AtMostOnce(c) ==
    \A i \in 1..Len(events[c]) :
        Delivered(sunk[c], events[c][i]) <= InStream(events[c], events[c][i])

\* C13: within one Watch every record is passed to the Printer at most once,
\* and a watcher started before its stream existed delivers every record of
\* the stream exactly once: while it polls, no record stays undelivered whose
\* timestamp is at or below the timestamp the next fetches start after (such
\* a record is returned by no later fetch).
C13_EachRecordOnce ==
    \A c \in Containers :
        /\ AtMostOnce(c)
        /\ (hist[c].startedBeforeStream /\ lw[c].pc = "select") =>
              \A i \in 1..Len(events[c]) :
                  events[c][i].ts <= lw[c].after =>
                      Delivered(sunk[c], events[c][i]) = InStream(events[c], events[c][i])

\* C14: within one Watch, of any two records delivered one after the other the
\* later one has a strictly greater timestamp (stated for the deliveries up to
\* which the Printer has always returned true, so that no Stop is involved).
C14_StrictlyIncreasing ==
    \A c \in Containers : \A i \in 2..Len(sunk[c]) :
        (\A j \in 1..i : sunk[c][j].ret) => sunk[c][i].ev.ts > sunk[c][i - 1].ev.ts

\* C14 as amended: a record delivered by a poll has a strictly greater
\* timestamp than every record delivered by the earlier polls of the Watch,
\* and the records one poll delivers come in timestamp order, equal
\* timestamps allowed.
C14_IncreasingAcrossPolls ==
    [][\A c \in Containers : \A i \in (Len(sunk[c]) + 1)..Len(sunk'[c]) :
          /\ \A j \in 1..Len(sunk[c]) : sunk'[c][i].ev.ts > sunk[c][j].ev.ts
          /\ i > Len(sunk[c]) + 1 => sunk'[c][i].ev.ts >= sunk'[c][i - 1].ev.ts
      ]_vars

\* Two polls of one Watch have each delivered a record.
C14_Witness ==
    /\ Len(sunk[1]) = 2
    /\ lw[1].pc = "select" /\ lw[1].after = sunk[1][2].ev.ts
    /\ sunk[1][1].ev.ts + MsPerSec <= sunk[1][2].ev.ts

\* The finished messages Run has put into container c's stream.
Markers(evs) == Len(SelectSeq(evs, LAMBDA e : e.by = "runner"))

\* The container writeContainerFinishedMessage is called for next.
Current == RunOrder[run.cur]

\* C15: a finished message is put into a container's stream only by a Run whose
\* WaitUntilTasksStopped has answered nil for stopped tasks and for a container
\* described as STOPPED; for a container described otherwise
\* writeContainerFinishedMessage puts nothing anywhere and Run returns the
\* error "expected container to be STOPPED, got <status>".
C15_MarkerOnlyWhenStopped ==
    [][/\ \A c \in RunContainers :
            Markers(events'[c]) > Markers(events[c]) =>
                /\ run.pc = "put" /\ c = Current
                /\ ecs.stopped /\ ecs.status[c] = "STOPPED"
       /\ (/\ run.pc = "write" /\ run.cur <= Len(RunOrder)
           /\ ecs.status[Current] # "STOPPED"
           /\ run' # run) =>
                /\ run'.pc = "returned" /\ run'.res.kind = "err"
                /\ run'.err = <<"expected container to be STOPPED, got ",
                                ecs.status[Current]>>
                /\ events' = events /\ ~crashed'
      ]_vars

\* Run has returned the error for a container described as RUNNING, whose
\* stream holds a record of the container and no finished message.
C15_Witness ==
    /\ run.pc = "returned"
    /\ run.err = <<"expected container to be STOPPED, got ", "RUNNING">>
    /\ ecs.stopped /\ ecs.status[1] = "RUNNING"
    /\ events[1] # <<>> /\ Markers(events[1]) = 0

\* C16: for a container described as STOPPED without an exit code,
\* writeContainerFinishedMessage puts nothing into any stream and Run returns
\* an error whose message is the container's reason or, when it has none, the
\* stopped reason of the task; the program does not crash.
C16_NoExitCodeReturnsReason ==
    [][(/\ run.pc = "write" /\ run.cur <= Len(RunOrder)
        /\ ecs.status[Current] = "STOPPED"
        /\ ecs.codes[Current] = NoCode
        /\ run' # run) =>
            /\ ~crashed'
            /\ events' = events
            /\ run'.pc = "returned" /\ run'.res.kind = "err"
            /\ run'.err = <<IF ecs.reason[Current] # NoReason
                             THEN ecs.reason[Current]
                             ELSE ecs.stoppedReason>>
      ]_vars

\* s is of the shape <prefix>/<name>/<id>.
HasShape(s, prefix, name, id) ==
    /\ Len(s) = Len(prefix) + Len(name) + Len(id) + 2
    /\ SubSeq(s, 1, Len(prefix)) = prefix
    /\ s[Len(prefix) + 1] = "/"
    /\ SubSeq(s, Len(prefix) + 2, Len(prefix) + 1 + Len(name)) = name
    /\ s[Len(prefix) + Len(name) + 2] = "/"
    /\ SubSeq(s, Len(s) - Len(id) + 1, Len(s)) = id

\* C17: the stream names of two containers of one run are of the shape
\* <runPrefix>/<containerName>/<taskID>, the task ID being the last element of
\* the task's ARN; they are equal when the two are the same container (its
\* watcher and its writer) and different when the containers differ in name
\* or in task ID.
C17_StreamNameInjective ==
    (call.fn = "logStreamName" /\ call.done) =>
        /\ HasShape(call.ret[1], call.prefix, call.a.name, Base(call.a.arn))
        /\ HasShape(call.ret[2], call.prefix, call.b.name, Base(call.b.arn))
        /\ call.a = call.b => call.ret[1] = call.ret[2]
        /\ (call.a.name # call.b.name \/ Base(call.a.arn) # Base(call.b.arn))
               => call.ret[1] # call.ret[2]

\* Two containers of the same name in two tasks have got their stream names.
C17_Witness ==
    /\ call.fn = "logStreamName" /\ call.done
    /\ call.a.name = call.b.name
    /\ Base(call.a.arn) # Base(call.b.arn)
    /\ call.ret[1] # call.ret[2]

\* C18: the Printer of a container's watcher returns false on the finished
\* message Run writes for that container, and true on the finished message of
\* a container with another container ID, also when one ID is the beginning
\* of the other.
C18_OwnMarkerOnly ==
    (call.fn = "finished" /\ call.done) =>
        (call.ret.keep <=> Base(call.writer) # Base(call.reader))

\* The Printer of container "a" was called with the finished message of
\* container "ab", which is "Container ab exited with 137".
C18_Witness ==
    /\ call.fn = "finished" /\ call.done
    /\ Base(call.reader) = <<"a">> /\ Base(call.writer) = <<"a", "b">>
    /\ call.ret.message =
          <<"C", "o", "n", "t", "a", "i", "n", "e", "r", " ", "a", "b", " ",
            "e", "x", "i", "t", "e", "d", " ", "w", "i", "t", "h", " ", "1", "3", "7">>
    /\ call.ret.keep

\* The messages of the records watcher c delivered before it delivered a
\* finished message.
BeforeMarker(c) ==
    LET at == {i \in 1..Len(sunk[c]) : sunk[c][i].ev.msg = FinishedMessage}
        n == IF at = {} THEN Len(sunk[c])
             ELSE (CHOOSE i \in at : \A j \in at : i <= j) - 1
    IN  [i \in 1..n |-> sunk[c][i].ev.msg]

\* C19: during Run the lines of the records a container's watcher delivered
\* before the finished message are on standard output once each and in the
\* order of delivery, and no finished message is on standard output.
C19_StdoutIsDelivered ==
    /\ \A c \in RunContainers :
          SelectSeq(stdout, LAMBDA l : \E i \in 1..Len(BeforeMarker(c)) :
                                          BeforeMarker(c)[i] = l) = BeforeMarker(c)
    /\ \A j \in 1..Len(stdout) : stdout[j] # FinishedMessage

\* A watcher has delivered a line and then the finished message, and has
\* returned nil; the line is on standard output.
C19_Witness ==
    /\ Len(BeforeMarker(1)) = 1 /\ Len(sunk[1]) = 2
    /\ stdout = <<Lines[1]>>
    /\ lw[1].pc = "done" /\ lw[1].res = "nil"

\* The entry s is a bare KEY: it holds no "=".
Bare(s) == \A i \in 1..Len(s) : s[i] # "="

\* C20: awsKeyValuePairForEnv returns one pair per wanted entry, in the order
\* of the entries: for KEY=value the name KEY (without "=") and the value so
\* that name, "=", value is the entry, with no lookup; for a bare KEY the name
\* KEY and the value it is set to, be it empty.  The lookups are those of the
\* bare entries; no entries, no pairs and no lookups.  When a bare KEY is not
\* set, it returns no pairs and the error 'missing environment variable "KEY"'
\* for the first such KEY.
C20_EnvPairs ==
    (call.fn = "env" /\ call.done) =>
        LET wanted == call.wanted
            env == call.env
            ret == call.ret
            missing == {i \in 1..Len(wanted) : Bare(wanted[i]) /\ wanted[i] \notin DOMAIN env}
        IN  IF missing = {}
            THEN /\ ret.err = <<>>
                 /\ Len(ret.kvp) = Len(wanted)
                 /\ \A i \in 1..Len(wanted) :
                       IF Bare(wanted[i])
                       THEN /\ ret.kvp[i].name = wanted[i]
                            /\ ret.kvp[i].value = env[wanted[i]]
                       ELSE /\ Bare(ret.kvp[i].name)
                            /\ ret.kvp[i].name \o <<"=">> \o ret.kvp[i].value = wanted[i]
                 /\ ret.lookups = SelectSeq(wanted, Bare)
            ELSE LET m == CHOOSE i \in missing : \A j \in missing : i <= j
                 IN  /\ ret.kvp = <<>>
                     /\ ret.err = <<"missing environment variable ", "\"">>
                                      \o wanted[m] \o <<"\"">>

\* awsKeyValuePairForEnv has returned the pairs of a bare KEY that is set to
\* the empty string and of the entry K==.
C20_Witness ==
    /\ call.fn = "env" /\ call.done
    /\ call.wanted = << <<"K">>, <<"K", "=", "=">> >>
    /\ call.ret.kvp = << [name |-> <<"K">>, value |-> <<>>],
                         [name |-> <<"K">>, value |-> <<"=">>] >>
    /\ call.ret.lookups = << <<"K">> >>

\* C21: a rate-limit error of the log store is never surfaced: neither Wait
\* nor Watch (its fetches included) nor WriteString (its token lookup and its
\* append included, and so Run) returns a rate-limit error.
C21_RateLimitNeverSurfaced ==
    /\ \A p \in Procs : wt[p].res = "err" => ~isRateLimited(wt[p].resp)
    /\ \A c \in Containers : lw[c].pc = "done" => ~isRateLimited(lw[c].err)
    /\ run.pc \in {"returned", "exited"} => run.err # AwsError("Throttling")

\* A step in which the Wait of WriteString lists the streams and the store
\* answers without error.
ListedOk ==
    /\ RunWrite \/ WaitList(RunProc, TRUE)
    /\ wt'[RunProc].resp = "ok"
    /\ run'.pc \in {"writeWait", "put"}

\* C22: Wait returns success only on a list call that finds a stream whose
\* name equals the target name, and on the first such call: a list call
\* answered without error makes Wait return nil exactly if the stream of that
\* name exists then, whatever streams of longer names exist.
C22_WaitSucceedsOnExactName ==
    [][/\ ListedOk =>
            /\ wt'[RunProc].res = "nil" <=> WaiterName(RunProc) \in streams
            /\ wt'[RunProc].pc = "done" <=> WaiterName(RunProc) \in streams
       /\ (wt'[RunProc] # wt[RunProc] /\ wt'[RunProc].res = "nil") => ListedOk]_vars

\* Wait has timed out on a group that holds a stream of a longer name and not
\* the stream of the target name.
C22_Witness ==
    /\ OtherStreamName(1) \in streams
    /\ logStreamName(1) \notin streams
    /\ wt[RunProc].pc = "done" /\ wt[RunProc].res = "timedout"
    /\ run.puts = 0

\* C23: the sink never receives a record whose timestamp is earlier than the
\* time in milliseconds at which Watch began to wait for the stream.
C23_NoRecordFromBeforeStart ==
    \A c \in Containers : \A i \in 1..Len(sunk[c]) :
        sunk[c][i].ev.ts >= hist[c].startedAt

\* The greatest of a non-empty set of numbers.
Greatest(S) == CHOOSE x \in S : \A y \in S : y <= x

\* The Printer calls of the step.
SeenNow(c) == SubSeq(sunk'[c], Len(sunk[c]) + 1, Len(sunk'[c]))

\* C24: a poll that returns without error has asked for all the records
\* strictly after the watermark and for no other, and leaves as watermark the
\* greatest of the old watermark and the timestamps of the records seen on
\* all pages of the fetch; the watermark of a watcher never decreases.
C24_WatermarkIsMaximumSeen ==
    [][\A c \in Containers :
         /\ (WatchPoll(c) /\ lw'[c].pc = "select") =>
               /\ lw'[c].after =
                     Greatest({lw[c].after}
                                \cup {SeenNow(c)[i].ev.ts : i \in 1..Len(SeenNow(c))})
               /\ \A i \in 1..Len(SeenNow(c)) : SeenNow(c)[i].ev.ts > lw[c].after
               /\ \A i \in 1..Len(events[c]) :
                     events[c][i].ts > lw[c].after =>
                        \E j \in 1..Len(SeenNow(c)) : SeenNow(c)[j].ev = events[c][i]
         /\ lw[c].pc = "select" => lw'[c].after >= lw[c].after]_vars

\* One watcher has been handed two records of different timestamps and its
\* watermark is the later of these.
C24_Witness ==
    /\ lw[1].pc = "select"
    /\ Len(sunk[1]) = 2
    /\ sunk[1][1].ev.ts < sunk[1][2].ev.ts
    /\ lw[1].after = sunk[1][2].ev.ts

\* The first fetch of watcher c, answered by the store.
FirstFetch(c) == WatchPoll(c) /\ ~hist[c].fetched /\ lw'[c].res # "err"

\* C25: the first fetch hands to the sink every record that is in the stream
\* then and whose timestamp is later than the moment Watch began to wait,
\* whether it was written before or after the stream was found.
C25_FirstFetchDeliversAllSinceStart ==
    [][\A c \in Containers :
         FirstFetch(c) =>
            \A i \in 1..Len(events[c]) :
               events[c][i].ts > hist[c].startedAt =>
                  \E j \in 1..Len(SeenNow(c)) : SeenNow(c)[j].ev = events[c][i]]_vars

\* A step in which the Wait of WriteString returns an error.
WaitFails ==
    /\ \/ RunWrite /\ run.cur <= Len(RunOrder)
       \/ WaitList(RunProc, TRUE)
       \/ WaitTimedOut(RunProc)
    /\ wt'[RunProc].pc = "done"
    /\ wt'[RunProc].res # "nil"

\* The errors a call of the store may fail with.
StoreErrors ==
    {AwsError(code) : code \in {"Throttling", "error", "ResourceNotFoundException",
                                "InvalidSequenceTokenException"}}

\* C26: WriteString issues no PutLogEvents when Wait fails, when the lookup of
\* the sequence token fails or when that lookup finds no stream, and returns
\* that error; it issues PutLogEvents at most once, and when the store rejects
\* it, returns the store's error and appends nothing.
C26_NoPutAfterFailureNoRetry ==
    [][/\ WaitFails =>
            /\ run'.puts = run.puts
            /\ run'.pc = "returned" /\ run'.res.kind = "err"
            /\ run'.err = IF wt'[RunProc].res = "timedout"
                          THEN TimedOutError(WaiterName(RunProc))
                          ELSE AwsError(wt'[RunProc].resp)
            /\ events' = events
       /\ RunPut =>
            /\ run'.puts \in {run.puts, run.puts + 1}
            /\ Len(DescribeLogStreams(WaiterName(RunProc))) = 0 =>
                  /\ run'.puts = run.puts
                  /\ run'.pc = "returned" /\ run'.res.kind = "err"
                  /\ run'.err \in {NotFoundError(WaiterName(RunProc))} \cup StoreErrors
            /\ run'.puts = run.puts =>
                  /\ run'.pc = "returned" /\ run'.res.kind = "err"
                  /\ run'.err \in {NotFoundError(WaiterName(RunProc))} \cup StoreErrors
                  /\ events' = events
            /\ (run'.puts = run.puts + 1 /\ events' = events) =>
                  /\ run'.pc = "returned" /\ run'.res.kind = "err"
                  /\ run'.err \in StoreErrors
            /\ events' # events => run'.puts = run.puts + 1 /\ run'.pc = "write"]_vars

\* WriteString has returned the error of a lookup that found no stream, after
\* Wait had found the stream, and no PutLogEvents was issued.
C26_Witness ==
    /\ run.pc = "returned"
    /\ run.err = NotFoundError(logStreamName(1))
    /\ wt[RunProc].res = "nil"
    /\ run.puts = 0

\* C27: the sequence token WriteString sends with PutLogEvents is the upload
\* sequence token that the stream named exactly LogStreamName has at that
\* moment, whatever other streams of the group have names that start with it.
C27_TokenOfExactStream ==
    [][(RunPut /\ run'.puts = run.puts + 1) =>
          run'.sent = UploadSequenceToken(WaiterName(RunProc))]_vars

\* A step in which the Wait of watcher c lists the streams and the store
\* answers with an error that is no rate limit.
ListFails(c) ==
    /\ WatchStart(c, FALSE) \/ WaitList(c, FALSE)
    /\ wt'[c].resp = "error"

\* C28: a list call of Wait that fails with an error other than a rate limit
\* makes Wait return that error at once, and so Watch: no time passes, it is
\* not the timeout error, and a Wait that has returned lists no more.
C28_WaitFailsFast ==
    [][\A c \in Containers :
         /\ ListFails(c) =>
               /\ wt'[c].pc = "done" /\ wt'[c].res = "err"
               /\ wt'[c].elapsed = (IF wt[c].pc = "off" THEN 0 ELSE wt[c].elapsed)
               /\ now' = now
               /\ lw'[c].pc = "done" /\ lw'[c].res = "err" /\ lw'[c].err = "error"
         /\ wt[c].pc = "done" => wt'[c] = wt[c]]_vars

\* Wait has returned the error of a list call that was not its first, before
\* its timeout.
C28_Witness ==
    /\ wt[1].pc = "done" /\ wt[1].res = "err" /\ wt[1].resp = "error"
    /\ wt[1].elapsed > 0 /\ wt[1].elapsed < timeout
    /\ lw[1].pc = "done" /\ lw[1].err = "error"

\* The go statements of Run that started a watcher for container c.
SpawnsOf(c) == {i \in 1..Len(run.spawned) : run.spawned[i] = c}

\* C29: when Run issues a WaitUntilTasksStopped call, it has started exactly
\* one watcher for every container of every task that was started, and no
\* other; a watcher is started by Run's spawning step only.
C29_OneWatcherPerContainerBeforeWait ==
    [][/\ RunWaitStopped =>
            /\ \A c \in RunContainers : Cardinality(SpawnsOf(c)) = 1 /\ lw[c].pc # "none"
            /\ Len(run.spawned) = Cardinality(RunContainers)
       /\ \A c \in RunContainers :
            (lw[c].pc = "none" /\ lw'[c].pc # "none") => RunSpawn /\ lw'[c].pc = "called"]_vars

\* Run's wait for two tasks of two containers each has ended; four watchers
\* were started.
C29_Witness ==
    /\ run.pc = "describe"
    /\ Len(ecs.layout) = MaxTasks
    /\ Len(run.spawned) = MaxTasks * MaxPerTask
    /\ \A c \in RunContainers : lw[c].pc # "none"

\* C30: a WaitUntilTasksStopped call that times out (ResourceNotReady) does
\* not make Run return: Run stays in its wait loop; the call that answers
\* nil ends the loop, and only a call that fails with another error makes Run
\* return, and then that error.
C30_WaitTimeoutIsRepeated ==
    [][RunWaitStopped =>
          /\ run'.werr = "ResourceNotReady" =>
                run'.pc = "waitStopped" /\ run'.res = run.res /\ run'.err = run.err
          /\ run'.werr = "nil" => run'.pc = "describe"
          /\ run'.pc = "returned" =>
                /\ run'.werr = "error"
                /\ run'.res.kind = "err" /\ run'.err = AwsError("error")
          /\ run'.werr = "error" => run'.pc = "returned"]_vars

\* Run is in its wait loop after a wait call that timed out, with its
\* watchers started.
C30_Witness ==
    /\ run.pc = "waitStopped"
    /\ run.werr = "ResourceNotReady"
    /\ \A c \in RunContainers : lw[c].pc = "wait"

\* Run has returned an error after it had started its watchers.
RunFailedAfterSpawn ==
    /\ run.pc \in {"returned", "exited"}
    /\ run.res.kind = "err"
    /\ run.spawned # <<>>

\* C31: when Run returns an infrastructural error after its watchers were
\* started (the wait for the tasks fails with another error than a timeout,
\* DescribeTasks fails, or a finished message cannot be appended), it has
\* cancelled the context of the watchers, and no watcher that was still
\* running ends otherwise than with the context's error.
C31_InfrastructureErrorCancels ==
    RunFailedAfterSpawn =>
        /\ ctxDone
        /\ \A c \in RunContainers :
             (lw[c].pc = "done" /\ hist[c].cancelledAt # "none") => lw[c].res = "ctxErr"

\* The Printer of container c's watcher has returned false for a finished
\* message that Run appended to the stream (calls: its calls so far).
SawOwnMarker(calls) ==
    \E i \in 1..Len(calls) :
        ~calls[i].ret /\ calls[i].ev.by = "runner" /\ calls[i].ev.msg = FinishedMessage

\* C32: neither a container's exit code that is not 0 nor the stream-wait
\* timeout of one watcher cancels or stops the watcher of another container:
\* the step in which a watcher times out changes nothing of the other
\* watchers, of the context and of the process; a stop channel is closed by
\* its own watcher's fetch only and the context is never cancelled by the
\* run; a watcher returns only by a step of its own, with nil after its own
\* finished message, or with its own error or timeout; and the process exits
\* with a container's exit code only when no watcher is running.
C32_SiblingsKeepTailing ==
    [][\A c \in RunContainers :
         /\ (lw[c].res # "timedout" /\ lw'[c].res = "timedout") =>
               /\ \A d \in RunContainers \ {c} : lw'[d] = lw[d] /\ wt'[d] = wt[d]
               /\ ctxDone' = ctxDone
               /\ run' = run /\ crashed' = crashed
         /\ (lw[c].stop # "closed" /\ lw'[c].stop = "closed") => WatchPoll(c)
         /\ ctxDone' = ctxDone
         /\ (lw[c].pc # "done" /\ lw'[c].pc = "done") =>
               /\ \/ WatchStart(c, TRUE) \/ WaitList(c, TRUE) \/ WaitTimedOut(c)
                  \/ WatchPoll(c) \/ WatchStopped(c)
               /\ \/ lw'[c].res = "nil" /\ SawOwnMarker(sunk[c])
                  \/ lw'[c].res = "err" /\ lw'[c].err \in {"error", "Throttling"}
                  \/ lw'[c].res = "timedout" /\ wt'[c].res = "timedout"
         /\ (MainExit /\ run.res.kind = "exit") => lw[c].pc = "done"
      ]_vars

\* The watcher of the second container has ended with the stream-wait timeout,
\* the first container exited with 1, and the first container's watcher is
\* still polling its stream.
C32_Witness ==
    /\ lw[2].pc = "done" /\ lw[2].res = "timedout"
    /\ ecs.codes[1] = 1
    /\ lw[1].pc = "select" /\ hist[1].fetched
    /\ Alive

\* Run has determined its result from the exit codes of the containers.
ExitCodeDecided == run.res.kind \in {"nil", "exit"}

\* C33: Run determines its result from the exit codes only when every watcher
\* it started has returned, and once the result is determined no Printer is
\* called and nothing more is printed.
C33_ResultAfterJoin ==
    [][/\ (~ExitCodeDecided /\ ExitCodeDecided') =>
             /\ RunJoin
             /\ \A c \in RunContainers : SpawnsOf(c) # {} /\ lw[c].pc = "done"
       /\ ExitCodeDecided => sunk' = sunk /\ stdout' = stdout /\ lw' = lw
      ]_vars

\* Run has returned the exit error of a container after both watchers
\* were given the finished message of their container and returned.
C33_Witness ==
    /\ run.pc = "returned" /\ run.res.kind = "exit"
    /\ \A c \in RunContainers :
         lw[c].pc = "done" /\ lw[c].res = "nil" /\ Len(sunk[c]) > 0

\* C34: the stop channel of a watcher is closed once in every execution: when
\* the Printer has returned false, for one record or for several of one
\* fetch, with or without a caller's Stop in between, nothing panics, and with
\* the context not cancelled Watch returns nil.
C34_StopSignalOnce ==
    \A c \in Containers :
        hist[c].sinkFalse =>
            /\ ~crashed
            /\ \A i \in 1..Len(stopLog[c]) : stopLog[c][i].ret # "panic"
            /\ (lw[c].pc = "done" /\ ~ctxDone) => lw[c].res = "nil"

\* C35: a watcher whose Printer has returned false for a finished message
\* returns nil, also when the context has been cancelled by the time the
\* fetch returns: it never returns the context's error.
C35_CompletionBeforeCancellation ==
    \A c \in Containers :
        (hist[c].sinkFalse /\ ctxDone /\ lw[c].pc = "done" /\ lw[c].res # "panic")
            => lw[c].res = "nil"

\* The timestamps records can have.
Stamps == {s * MsPerSec + ms : s \in 0..(MaxNow - 1), ms \in 0..MaxSubMs}

\* Container c's watcher is polling and its stream holds a record stamped ts,
\* later than the call of Watch, that the Printer has not been given.
Undelivered(c, ts) ==
    /\ lw[c].pc = "select"
    /\ ts > hist[c].startedAt
    /\ \E i \in 1..Len(events[c]) :
         events[c][i].ts = ts /\ Delivered(sunk[c], events[c][i]) = 0

\* C36: while a watcher polls, every record of its stream with a timestamp
\* later than the call of Watch is eventually given to the Printer (or Watch
\* returns), also a record that reaches the stream after a poll with a
\* timestamp at or below the timestamp that poll kept.
C36_NoRecordLost ==
    \A c \in Containers : \A ts \in Stamps :
        Undelivered(c, ts) ~> (~Undelivered(c, ts) \/ lw[c].pc = "done")

\* C37: a watcher of Run returns nil only when Run has appended the finished
\* message of its container to the stream, which Run does only after the
\* tasks were reported stopped, and the Printer was given that message; no
\* record the container wrote makes the watcher return nil.
C37_NilOnlyAfterRunsMarker ==
    \A c \in Containers :
        (lw[c].pc = "done" /\ lw[c].res = "nil") =>
            /\ ecs.stopped
            /\ \E i \in 1..Len(events[c]) : events[c][i].by = "runner"
            /\ SawOwnMarker(sunk[c])

\* C38: when Run has returned, with nil, with an exit error or with an error
\* that arose after the watchers were started, every watcher it started has
\* returned.
C38_NoWatcherOutlivesRun ==
    (run.pc = "returned" /\ run.spawned # <<>>) =>
        \A i \in 1..Len(run.spawned) : lw[run.spawned[i]].pc = "done"

\* C39: once the tasks have stopped and Run has appended the finished message
\* of every container, Run eventually returns: its wait for the watchers
\* ends, whatever the timestamps of the containers' records and of the
\* finished messages are.
C39_JoinEnds == (run.pc = "join") ~> (run.pc \in {"returned", "exited"})

\* C40: the goroutine Wait starts for its timeout ends after every Wait: once
\* Wait has returned, because the stream was found, with an error or with
\* the timeout, the goroutine eventually gets past its send on the done
\* channel and terminates.
C40_TimeoutGoroutineEnds ==
    \A p \in Containers : (wt[p].pc = "done") ~> (wt[p].gor = "exited")

\* C10: a rate-limited answer to the list call never makes Wait return: Wait
\* sleeps the 5 seconds of the backoff and then lists again, and when that
\* list call succeeds and the stream exists Wait returns nil.
C10_RateLimitBacksOff ==
    [][\A p \in Procs :
         /\ wt'[p].resp = "Throttling" => wt'[p].pc = "backoff" /\ wt'[p].res = "none"
         /\ (wt'[p].pc = "backoff" /\ wt[p].pc # "backoff") => wt'[p].sleep = RateLimitBackoff
         /\ (wt[p].pc = "backoff" /\ wt[p].sleep > 0) =>
               wt'[p].pc = "backoff" /\ wt'[p].sleep \in {wt[p].sleep, wt[p].sleep - 1}
         /\ (wt[p].pc = "backoff" /\ wt'[p] # wt[p] /\ wt[p].sleep = 0) =>
               /\ wt'[p].resp = "Throttling" => wt'[p].sleep = RateLimitBackoff
               /\ (wt'[p].resp = "ok" /\ streamExists(WaiterName(p))) =>
                     wt'[p].pc = "done" /\ wt'[p].res = "nil"
      ]_vars

\* After a rate limit and its backoff, which has taken Wait past its timeout,
\* Wait has found the stream and returned nil, and Watch polls.
C10_Witness ==
    /\ wt[1].pc = "done" /\ wt[1].res = "nil"
    /\ wt[1].elapsed >= RateLimitBackoff /\ wt[1].elapsed > timeout
    /\ lw[1].pc = "select"

=============================================================================
